---- MODULE Spec2Model ----
(***************************************************************************)
(* Model of the homelander capability dispatch core: the Device registry   *)
(* (src/src/device.rs), the execute error taxonomy                         *)
(* (src/src/execute_error.rs, src/src/serializable_error.rs) and the       *)
(* fulfillment orchestrator (src/src/lib.rs).                              *)
(*                                                                         *)
(* The concrete device behind a Device is user code.  It is modelled as a  *)
(* deterministic object: its state holds the values its getters return and *)
(* a fault condition naming the one capability operation that currently    *)
(* fails and the error it returns.                                         *)
(***************************************************************************)
EXTENDS Integers, Sequences, FiniteSets, TLC

\* Longest list of register calls (set_on_off, set_brightness, ...) made on
\* one device.
MaxTraits == 2

\* Largest number of entries of the updateModeSettings / updateToggleSettings
\* map of a SetModes / SetToggles command.
MaxMapLen == 1

-----------------------------------------------------------------------------
(* Option<T> *)

Some(x) == [some |-> TRUE, v |-> x]

NoneStr == [some |-> FALSE, v |-> ""]

NoneBool == [some |-> FALSE, v |-> FALSE]

-----------------------------------------------------------------------------
(* Capability slots and registration *)

\* The fields of struct DeviceTraits, one slot per capability.
Slots == {
    "app_selector", "arm_disarm", "brightness", "camera_stream", "channel",
    "color_setting", "cook", "dispense", "dock", "energy_storage",
    "fan_speed", "fill", "humidity_setting", "input_selector",
    "light_effects", "locator", "lock_unlock", "media_state", "modes",
    "network_control", "object_detection", "on_off", "open_close", "reboot",
    "rotation", "run_cycle", "sensor_state", "scene", "software_update",
    "start_stop", "status_report", "temperature_control",
    "temperature_setting", "timer", "toggles", "transport_control", "volume"
}

\* The register operations of Device: set_<slot> stores a handle in
\* device_traits.<slot> and pushes Trait::<tag>.  There is no register
\* operation for fill, humidity_setting and object_detection.
RegisterTag == [
    app_selector |-> "AppSelector", arm_disarm |-> "ArmDisarm",
    brightness |-> "Brightness", camera_stream |-> "CameraStream",
    channel |-> "Channel", color_setting |-> "ColorSetting", cook |-> "Cook",
    dispense |-> "Dispense", dock |-> "Dock",
    energy_storage |-> "EnergyStorage", fan_speed |-> "FanSpeed",
    input_selector |-> "InputSelector", light_effects |-> "LightEffects",
    locator |-> "Locator", lock_unlock |-> "LockUnlock",
    media_state |-> "MediaState", modes |-> "Modes",
    network_control |-> "NetworkControl", on_off |-> "OnOff",
    open_close |-> "OpenClose", reboot |-> "Reboot", rotation |-> "Rotation",
    run_cycle |-> "RunCycle", scene |-> "Scene",
    sensor_state |-> "SensorState", software_update |-> "SoftwareUpdate",
    start_stop |-> "StartStop", status_report |-> "StatusReport",
    temperature_control |-> "TemperatureControl",
    temperature_setting |-> "TemperatureSetting", timer |-> "Timer",
    toggles |-> "Toggles", transport_control |-> "TransportControl",
    volume |-> "Volume"
]

\* The capability interfaces the modelled concrete device type T implements
\* (set_<slot> is available only where T: <capability>).
Implemented == {"arm_disarm", "brightness", "lock_unlock", "network_control",
                "on_off"}

-----------------------------------------------------------------------------
(* Errors *)

\* An error value returned by a capability operation.
\*   ty      : the error enum the operation returns
\*   variant : its variant
\*   sub     : the variant of the CombinedDeviceError wrapped by an Other
\*             variant of a capability-specific enum ("" when none)
\*   leaf    : the innermost unit variant ("" when the innermost value is a
\*             SerializableError message)
\*   msg     : the message of the innermost SerializableError ("" when none)
NoError == [ty |-> "", variant |-> "", sub |-> "", leaf |-> "", msg |-> ""]

\* CombinedDeviceError::Other(SerializableError(msg))
CombinedOther(m) ==
    [ty |-> "CombinedDeviceError", variant |-> "Other", sub |-> "",
     leaf |-> "", msg |-> m]

\* <ty>::<variant>, a unit variant of a capability error enum
\* (ArmDisarmError::AlreadyInState)
Unit(ty, variant) ==
    [ty |-> ty, variant |-> variant, sub |-> "", leaf |-> variant, msg |-> ""]

\* <ty>::Device(DeviceError::<leaf>), the capability's own DeviceError enum
DeviceErr(ty, leaf) ==
    [ty |-> ty, variant |-> "Device", sub |-> "", leaf |-> leaf, msg |-> ""]

\* <ty>::Other(CombinedDeviceError::Other(SerializableError(msg)))
WrappedOther(ty, m) ==
    [ty |-> ty, variant |-> "Other", sub |-> "Other", leaf |-> "", msg |-> m]

\* The message carried by the infrastructure errors of the model.
InfraMsg == "io: device unreachable"

\* The #[error("...")] attribute (thiserror Display) of the unit variants of
\* ArmDisarmError, of lock_unlock::DeviceError and of
\* network_control::DeviceError.
ArmDisarmErrorAttr == [
    AlreadyInState |-> "alreadyInState",
    DeviceTampered |-> "deviceTampered",
    PassphraseIncorrect |-> "passphraseIncorrect",
    PinIncorrect |-> "pinIncorrect",
    SecurityRestrictions |-> "securityRestrictions",
    TooManyFailedAttempts |-> "tooManyFailedAttempts",
    UserCancelled |-> "userCancelled"
]

LockUnlockErrorAttr == [
    RemoteSetDisabled |-> "RemoteSetDisabled",
    DeviceJammingDetected |-> "DeviceJammingDetected",
    NotSupported |-> "NotSupported",
    AlreadyLocked |-> "AlreadyLocked",
    AlreadyUnlocked |-> "AlreadyUnlocked"
]

NetworkControlErrorAttr == [
    NetworkProfileNotRecognized |-> "NetworkProfileNotRecognized",
    NetworkSpeedTestInProgress |-> "NetworkSpeedTestInProgress"
]

\* The name serde gives the unit variants of the DeviceError enums of
\* lock_unlock.rs and network_control.rs, which are
\* #[serde(rename_all = "camelCase")]: the protocol's spelling of the code.
LockUnlockSerdeName == [
    RemoteSetDisabled |-> "remoteSetDisabled",
    DeviceJammingDetected |-> "deviceJammingDetected",
    NotSupported |-> "notSupported",
    AlreadyLocked |-> "alreadyLocked",
    AlreadyUnlocked |-> "alreadyUnlocked"
]

NetworkControlSerdeName == [
    NetworkProfileNotRecognized |-> "networkProfileNotRecognized",
    NetworkSpeedTestInProgress |-> "networkSpeedTestInProgress"
]

\* Display of an error: every wrapping variant is #[error("{0}")], so the
\* text is that of the innermost value.
to_string(e) ==
    CASE e.leaf \in DOMAIN ArmDisarmErrorAttr -> ArmDisarmErrorAttr[e.leaf]
      [] e.leaf \in DOMAIN LockUnlockErrorAttr -> LockUnlockErrorAttr[e.leaf]
      [] e.leaf \in DOMAIN NetworkControlErrorAttr ->
            NetworkControlErrorAttr[e.leaf]
      [] OTHER -> e.msg

\* The protocol's code string of a domain error: the serde name where the
\* enum has one, the Display text otherwise.
ProtocolCode(e) ==
    CASE e.leaf \in DOMAIN LockUnlockSerdeName -> LockUnlockSerdeName[e.leaf]
      [] e.leaf \in DOMAIN NetworkControlSerdeName ->
            NetworkControlSerdeName[e.leaf]
      [] OTHER -> to_string(e)

\* An infrastructure/server error: a CombinedDeviceError::Other, bare or
\* carried in the Other variant of a capability-specific error enum.
IsInfrastructure(e) ==
    \/ e.ty = "CombinedDeviceError" /\ e.variant = "Other"
    \/ e.ty # "CombinedDeviceError" /\ e.variant = "Other" /\ e.sub = "Other"

\* The error values of each error enum: every unit variant, and Other with
\* the one message of the model.  DeviceError and DeviceException of
\* traits/mod.rs have no variants, so the only CombinedDeviceError value is
\* Other.
Errors(ty) ==
    CASE ty = "CombinedDeviceError" -> {CombinedOther(InfraMsg)}
      [] ty = "ArmDisarmError" ->
            {Unit(ty, v) : v \in DOMAIN ArmDisarmErrorAttr}
            \cup {WrappedOther(ty, InfraMsg)}
      [] ty = "LockUnlockError" ->
            {DeviceErr(ty, v) : v \in DOMAIN LockUnlockErrorAttr}
            \cup {WrappedOther(ty, InfraMsg)}
      [] ty = "NetworkControlError" ->
            {DeviceErr(ty, v) : v \in DOMAIN NetworkControlErrorAttr}
            \cup {WrappedOther(ty, InfraMsg)}
      [] OTHER -> {}

\* ExecuteError: Serializable(Box<dyn ToStringError>) | Server(Box<dyn Error>)
ExecuteError(kind, e) == [kind |-> kind, e |-> e]

\* From with the Other arm of CombinedDeviceError boxed as Serializable, like
\* the other two arms.
From_OtherSerializable(e) == ExecuteError("Serializable", e)

\* impl From<CombinedDeviceError> for ExecuteError and impl_execute_error!
\* for the capability-specific enums.
From(e) ==
    IF e.ty = "CombinedDeviceError"
    THEN IF e.variant = "Other"
         THEN ExecuteError("Server", e)
         ELSE ExecuteError("Serializable", e)
    ELSE ExecuteError("Serializable", e)

-----------------------------------------------------------------------------
(* The concrete device *)

NoFault == [op |-> "none", err |-> NoError]

\* The result type of the capability operations (mutating operations and
\* getters) that can be made to fail.
OpErrorType == [
    arm |-> "ArmDisarmError", cancel_arm |-> "ArmDisarmError",
    arm_with_level |-> "ArmDisarmError",
    set_brightness_relative_percent |-> "CombinedDeviceError",
    set_brightness_relative_weight |-> "CombinedDeviceError",
    set_locked |-> "LockUnlockError",
    is_locked |-> "CombinedDeviceError",
    is_jammed |-> "CombinedDeviceError",
    get_guest_network_password |-> "NetworkControlError",
    set_on |-> "CombinedDeviceError",
    is_on |-> "CombinedDeviceError",
    get_available_arm_levels |-> "ArmDisarmError",
    is_command_only |-> "CombinedDeviceError"
]

\* The errors an operation is made to fail with: every value of its error
\* enum for arm, set_locked and get_guest_network_password, and for the
\* other operations the values with the variants AlreadyInState and Other.
FaultErrors(o) ==
    IF o \in {"arm", "set_locked", "get_guest_network_password"}
    THEN Errors(OpErrorType[o])
    ELSE {e \in Errors(OpErrorType[o]) :
              e.variant \in {"AlreadyInState", "Other"}}

\* The fault conditions a device can be in.
Faults ==
    {NoFault} \cup
    UNION {{[op |-> o, err |-> e] : e \in FaultErrors(o)} :
               o \in DOMAIN OpErrorType}


\* The state of the concrete device (the T behind Rc<RefCell<T>>).
\*   online : what GoogleHomeDevice::is_online returns
\*   on     : what OnOff::is_on returns, set by OnOff::set_on
\*   locked : what LockUnlock::is_locked returns, set by LockUnlock::set_locked
\*   fault  : the operation that currently fails, and its error
InnerStates ==
    [online : BOOLEAN, on : BOOLEAN, locked : BOOLEAN, fault : Faults]

\* A capability handle: Rc<RefCell<dyn Capability>>, a clone of Device.inner,
\* shares the device instance (shared = TRUE, own unused).
NoInner == [online |-> FALSE, on |-> FALSE, locked |-> FALSE, fault |-> NoFault]

RcHandle == [shared |-> TRUE, own |-> NoInner]

\* Device::new: no slot populated, no trait listed.
new(device, device_type, id) ==
    [id |-> id, device_type |-> device_type, device_traits |-> <<>>,
     traits |-> <<>>, inner |-> device]

\* The populated slots of a device.
Populated(d) == DOMAIN d.device_traits

\* set_<slot> without the push: the slot is populated and the ordered list
\* left as it is.
set_trait_SlotOnly(d, slot) ==
    [d EXCEPT !.device_traits = (slot :> RcHandle) @@ d.device_traits]

\* Device::set_<slot>: device_traits.<slot> = Some(self.inner.clone());
\* traits.push(Trait::<tag>).
set_trait(d, slot) ==
    [d EXCEPT !.device_traits = (slot :> RcHandle) @@ d.device_traits,
              !.traits = Append(d.traits, RegisterTag[slot])]

-----------------------------------------------------------------------------
(* EXECUTE commands *)

\* A CommandType value, reduced to the parameters execute_inner branches on
\* or passes to a modelled operation:
\*   tag : the variant
\*   o1, o2, o3 : presence of the variant's optional parameters
\*   b1, b2 : its boolean parameters
\*   n : the number of entries of its map parameter
\* AppInstall/AppSearch/AppSelect: o1 = newApplication, o2 = newApplicationName
\* ArmDisarm: b1 = arm, o1 = cancel present, b2 = cancel, o2 = armLevel
\* BrightnessRelative: o1 = brightnessRelativePercent,
\*                     o2 = brightnessRelativeWeight
\* SelectChannel: o1 = channelCode, o2 = channelNumber
\* Cook: b1 = start
\* Dispense: o1 = item, o2 = amount, o3 = unit, b2 = presetName present
\* SetFanSpeed: o1 = fanSpeed, o2 = fanSpeedPercent
\* SetFanSpeedRelative: o1 = fanSpeedRelativeWeight,
\*                      o2 = fanSpeedRelativePercent
\* Fill: b1 = fill, o1 = fillLevel, o2 = fillPercent
\* HumidityRelative: o1 = humidityRelativePercent, o2 = humidityRelativeWeight
\* LockUnlock: b1 = lock;  OnOff: b1 = on;  ActivateScene: b1 = deactivate
\* RotationAbsolute: o1 = rotationDegrees, o2 = rotationPercent
\* TemperatureRelative: o1 = ...RelativeDegree, o2 = ...RelativeWeight
\* SetModes, SetToggles: n = entries of the update map
Cmd(tag, o1, o2, o3, b1, b2, n) ==
    [tag |-> tag, o1 |-> o1, o2 |-> o2, o3 |-> o3, b1 |-> b1, b2 |-> b2,
     n |-> n]

Plain(tag) == Cmd(tag, FALSE, FALSE, FALSE, FALSE, FALSE, 0)

NoCmd == Plain("")

\* The variants of CommandType whose parameters play no part in the model.
PlainTags == {
    "BrightnessAbsolute", "GetCameraStream", "RelativeChannel",
    "ReturnChannel", "ColorAbsolute", "Dock", "Charge", "Reverse",
    "SetHumidity", "SetInput", "NextInput", "PreviousInput", "ColorLoop",
    "Sleep", "StopEffect", "Wake", "Locate", "EnableDisableGuestNetwork",
    "EnableDisableNetworkProfile", "GetGuestNetworkPassword",
    "TestNetworkSpeed", "OpenClose", "OpenCloseRelative", "Reboot",
    "SoftwareUpdate", "StartStop", "PauseUnpause", "SetTemperature",
    "ThermostatTemperatureSetpoint", "ThermostatTemperatureSetRange",
    "ThermostatSetMode", "TimerStart", "TimerAdjust", "TimerPause",
    "TimerResume", "TimerCancel", "MediaStop", "MediaNext", "MediaPrevious",
    "MediaPause", "MediaResume", "MediaSeekRelative", "MediaSeekToPosition",
    "MediaRepeatMode", "MediaShuffle", "MediaClosedCaptioningOn",
    "MediaClosedCaptioningOff", "Mute", "SetVolume", "VolumeRelative"
}

\* The variants with two optional parameters.
TwoOptionTags == {
    "AppInstall", "AppSearch", "AppSelect", "BrightnessRelative",
    "SelectChannel", "SetFanSpeed", "SetFanSpeedRelative", "HumidityRelative",
    "RotationAbsolute", "TemperatureRelative"
}

\* Every CommandType value the request deserializer accepts, up to the
\* parameters the model ignores: an Option field may be absent.
CommandType ==
    {Plain(t) : t \in PlainTags}
    \cup {Cmd(t, o1, o2, FALSE, FALSE, FALSE, 0) :
            t \in TwoOptionTags, o1 \in BOOLEAN, o2 \in BOOLEAN}
    \cup {c \in {Cmd("ArmDisarm", o1, o2, FALSE, b1, b2, 0) :
                   o1 \in BOOLEAN, o2 \in BOOLEAN, b1 \in BOOLEAN,
                   b2 \in BOOLEAN} : c.o1 \/ ~c.b2}
    \cup {Cmd(t, FALSE, FALSE, FALSE, b1, FALSE, 0) :
            t \in {"Cook", "LockUnlock", "OnOff", "ActivateScene"},
            b1 \in BOOLEAN}
    \cup {Cmd("Dispense", o1, o2, o3, FALSE, b2, 0) :
            o1 \in BOOLEAN, o2 \in BOOLEAN, o3 \in BOOLEAN, b2 \in BOOLEAN}
    \cup {Cmd("Fill", o1, o2, FALSE, b1, FALSE, 0) :
            o1 \in BOOLEAN, o2 \in BOOLEAN, b1 \in BOOLEAN}
    \cup {Cmd(t, FALSE, FALSE, FALSE, FALSE, FALSE, n) :
            t \in {"SetModes", "SetToggles"}, n \in 0..MaxMapLen}

\* The capability slot each arm of execute_inner's match looks up.  SetHumidity
\* and HumidityRelative have no arm: they reach the wildcard arm `_ => {}`.
ArmSlot == [
    AppInstall |-> "app_selector", AppSearch |-> "app_selector",
    AppSelect |-> "app_selector", ArmDisarm |-> "arm_disarm",
    BrightnessAbsolute |-> "brightness", BrightnessRelative |-> "brightness",
    GetCameraStream |-> "camera_stream", SelectChannel |-> "channel",
    RelativeChannel |-> "channel", ReturnChannel |-> "channel",
    ColorAbsolute |-> "color_setting", Cook |-> "cook",
    Dispense |-> "dispense", Dock |-> "dock", Charge |-> "energy_storage",
    SetFanSpeed |-> "fan_speed", SetFanSpeedRelative |-> "fan_speed",
    Reverse |-> "fan_speed", Fill |-> "fill", SetInput |-> "input_selector",
    NextInput |-> "input_selector", PreviousInput |-> "input_selector",
    ColorLoop |-> "light_effects", Sleep |-> "light_effects",
    StopEffect |-> "light_effects", Wake |-> "light_effects",
    Locate |-> "locator", LockUnlock |-> "lock_unlock", SetModes |-> "modes",
    EnableDisableGuestNetwork |-> "network_control",
    EnableDisableNetworkProfile |-> "network_control",
    GetGuestNetworkPassword |-> "network_control",
    TestNetworkSpeed |-> "network_control", OnOff |-> "on_off",
    OpenClose |-> "open_close", OpenCloseRelative |-> "open_close",
    Reboot |-> "reboot", RotationAbsolute |-> "rotation",
    ActivateScene |-> "scene", SoftwareUpdate |-> "software_update",
    StartStop |-> "start_stop", PauseUnpause |-> "start_stop",
    SetTemperature |-> "temperature_control",
    ThermostatTemperatureSetpoint |-> "temperature_setting",
    ThermostatTemperatureSetRange |-> "temperature_setting",
    ThermostatSetMode |-> "temperature_setting",
    TemperatureRelative |-> "temperature_setting", TimerStart |-> "timer",
    TimerAdjust |-> "timer", TimerPause |-> "timer", TimerResume |-> "timer",
    TimerCancel |-> "timer", SetToggles |-> "toggles",
    MediaStop |-> "transport_control", MediaNext |-> "transport_control",
    MediaPrevious |-> "transport_control",
    MediaPause |-> "transport_control", MediaResume |-> "transport_control",
    MediaSeekRelative |-> "transport_control",
    MediaSeekToPosition |-> "transport_control",
    MediaRepeatMode |-> "transport_control",
    MediaShuffle |-> "transport_control",
    MediaClosedCaptioningOn |-> "transport_control",
    MediaClosedCaptioningOff |-> "transport_control", Mute |-> "volume",
    SetVolume |-> "volume", VolumeRelative |-> "volume"
]

\* The capability slot each command targets: the slot of the capability that
\* declares the command's operation.  SetHumidity and HumidityRelative are the
\* commands of HumiditySetting (set_humidity, set_humidity_relative_percent,
\* set_humidity_relative_weight).
TargetSlot(tag) ==
    IF tag \in {"SetHumidity", "HumidityRelative"}
    THEN "humidity_setting"
    ELSE ArmSlot[tag]

Opt(present, op) == IF present THEN <<op>> ELSE <<>>

Repeat(op, n) == [i \in 1..n |-> op]

\* The capability operations the arm of a command invokes, in order, when
\* none of them fails (the body of the arm after the slot lookup).
Plan(c) ==
    LET t == c.tag IN
    CASE t = "AppInstall" ->
            Opt(c.o1, "app_install_key") \o Opt(c.o2, "app_install_name")
      [] t = "AppSearch" ->
            Opt(c.o1, "app_search_key") \o Opt(c.o2, "app_search_name")
      [] t = "AppSelect" ->
            Opt(c.o1, "app_select_key") \o Opt(c.o2, "app_select_name")
      [] t = "ArmDisarm" ->
            IF c.o1
            THEN Opt(c.b2, "cancel_arm")
            ELSE IF c.o2 THEN <<"arm_with_level">> ELSE <<"arm">>
      [] t = "BrightnessAbsolute" -> <<"set_brightness_absolute">>
      [] t = "BrightnessRelative" ->
            Opt(c.o1, "set_brightness_relative_percent")
            \o Opt(c.o2, "set_brightness_relative_weight")
      [] t = "GetCameraStream" -> <<"get_camera_stream">>
      [] t = "SelectChannel" ->
            IF c.o1 THEN <<"select_channel_by_id">>
            ELSE Opt(c.o2, "select_channel_by_number")
      [] t = "RelativeChannel" -> <<"select_channel_relative">>
      [] t = "ReturnChannel" -> <<"return_to_last_channel">>
      [] t = "ColorAbsolute" -> <<"set_color">>
      [] t = "Cook" -> IF c.b1 THEN <<"start">> ELSE <<"stop">>
      [] t = "Dispense" ->
            IF c.o1 THEN <<"dispense_amount">>
            ELSE IF c.b2 THEN <<"dispense_preset">>
            ELSE <<"dispense_default">>
      [] t = "Dock" -> <<"dock">>
      [] t = "Charge" -> <<"charge">>
      [] t = "SetFanSpeed" ->
            IF c.o1 THEN <<"set_fan_speed_setting">>
            ELSE Opt(c.o2, "set_fan_speed_percent")
      [] t = "SetFanSpeedRelative" ->
            IF c.o1 THEN <<"set_fan_speed_relative_weight">>
            ELSE Opt(c.o2, "set_fan_speed_relative_percent")
      [] t = "Reverse" -> <<"set_fan_reverse">>
      [] t = "Fill" ->
            IF c.o1 THEN <<"fill_to_level">>
            ELSE IF c.o2 THEN <<"fill_to_percent">>
            ELSE <<"fill">>
      [] t = "SetInput" -> <<"set_input">>
      [] t = "NextInput" -> <<"set_next_input">>
      [] t = "PreviousInput" -> <<"set_previous_input">>
      [] t = "ColorLoop" -> <<"set_color_loop">>
      [] t = "Sleep" -> <<"set_sleep">>
      [] t = "StopEffect" -> <<"stop_effect">>
      [] t = "Wake" -> <<"set_wake">>
      [] t = "Locate" -> <<"locate">>
      [] t = "LockUnlock" -> <<"set_locked", "is_locked">>
      [] t = "SetModes" -> Repeat("update_mode", c.n)
      [] t = "EnableDisableGuestNetwork" -> <<"set_guest_network_enabled">>
      [] t = "EnableDisableNetworkProfile" ->
            <<"set_network_profile_enabled">>
      [] t = "GetGuestNetworkPassword" -> <<"get_guest_network_password">>
      [] t = "TestNetworkSpeed" -> <<"test_network_speed">>
      [] t = "OnOff" -> <<"set_on">>
      [] t = "OpenClose" -> <<"set_open">>
      [] t = "OpenCloseRelative" -> <<"set_open_relative">>
      [] t = "Reboot" -> <<"reboot">>
      [] t = "RotationAbsolute" ->
            IF c.o1 THEN <<"set_rotation_degrees">>
            ELSE Opt(c.o2, "set_rotation_percent")
      [] t = "ActivateScene" ->
            IF c.b1 THEN <<"deactivate">> ELSE <<"activate">>
      [] t = "SoftwareUpdate" -> <<"perform_update">>
      [] t = "StartStop" -> <<"start_stop">>
      [] t = "PauseUnpause" -> <<"pause_unpause">>
      [] t = "SetTemperature" -> <<"set_temperature">>
      [] t = "ThermostatTemperatureSetpoint" ->
            <<"set_temperature_setpoint">>
      [] t = "ThermostatTemperatureSetRange" ->
            <<"set_temperature_set_range">>
      [] t = "ThermostatSetMode" -> <<"set_thermostat_mode">>
      [] t = "TemperatureRelative" ->
            Opt(c.o1, "set_temperature_relative_degree")
            \o Opt(c.o2, "set_temperature_relative_weight")
      [] t = "TimerStart" -> <<"start_timer">>
      [] t = "TimerAdjust" -> <<"adjust_timer">>
      [] t = "TimerPause" -> <<"pause_timer">>
      [] t = "TimerResume" -> <<"resume_timer">>
      [] t = "TimerCancel" -> <<"cancel_timer">>
      [] t = "SetToggles" -> Repeat("set_toggle", c.n)
      [] t = "MediaStop" -> <<"media_stop">>
      [] t = "MediaNext" -> <<"media_next">>
      [] t = "MediaPrevious" -> <<"media_previous">>
      [] t = "MediaPause" -> <<"media_pause">>
      [] t = "MediaResume" -> <<"media_resume">>
      [] t = "MediaSeekRelative" -> <<"media_seek_relative">>
      [] t = "MediaSeekToPosition" -> <<"media_seek_to_position">>
      [] t = "MediaRepeatMode" -> <<"media_repeat_mode">>
      [] t = "MediaShuffle" -> <<"media_shuffle">>
      [] t = "MediaClosedCaptioningOn" -> <<"media_closed_captioning_on">>
      [] t = "MediaClosedCaptioningOff" -> <<"media_closed_captioning_off">>
      [] t = "Mute" -> <<"mute">>
      [] t = "SetVolume" -> <<"set_volume">>
      [] t = "VolumeRelative" -> <<"set_volume_relative">>
      [] OTHER -> <<>>

-----------------------------------------------------------------------------
(* The concrete device's operations *)

\* The state behind the handle of a populated slot.
SlotState(d, slot) ==
    IF d.device_traits[slot].shared
    THEN d.inner
    ELSE d.device_traits[slot].own

\* WithSlotState writing the new state into the capability handle, which
\* then stops sharing the device instance.
WithSlotState_IntoHandle(d, slot, s) ==
    [d EXCEPT !.device_traits[slot] = [shared |-> FALSE, own |-> s]]

WithSlotState(d, slot, s) ==
    IF d.device_traits[slot].shared
    THEN [d EXCEPT !.inner = s]
    ELSE [d EXCEPT !.device_traits[slot].own = s]

\* The mutation a successful capability operation performs on the concrete
\* device: set_on(on) stores on, set_locked(lock) stores lock (as the
\* UltimateSwitch of tests/execute.rs does for set_on); the other operations
\* change nothing the model observes.
Mutate(s, op, c) ==
    CASE op = "set_on" -> [s EXCEPT !.on = c.b1]
      [] op = "set_locked" -> [s EXCEPT !.locked = c.b1]
      [] OTHER -> s

\* The password get_guest_network_password returns.
GuestPassword == "guest-password"

BoolStr(b) == IF b THEN "true" ELSE "false"

\* struct CommandState and its Default.
DefaultCommandState == [lock |-> NoneBool, guest_network_password |-> NoneStr]

\* The state fragment an arm of execute_inner fills in from the values its
\* operations returned, given the device state after the last operation.
ReadBack(state, op, s) ==
    CASE op = "is_locked" -> [state EXCEPT !.lock = Some(s.locked)]
      [] op = "get_guest_network_password" ->
            [state EXCEPT !.guest_network_password = Some(GuestPassword)]
      [] OTHER -> state

\* The operations of an arm with a failing operation skipped over: the
\* later operations are still called and the arm ends with the first error.
RECURSIVE RunPlan_KeepsGoing(_, _, _, _, _)
RunPlan_KeepsGoing(s, c, plan, calls, state) ==
    IF plan = <<>>
    THEN [kind |-> "ok", s |-> s, calls |-> calls, err |-> NoError,
          state |-> state]
    ELSE IF s.fault.op = Head(plan)
    THEN [RunPlan_KeepsGoing([s EXCEPT !.fault = NoFault], c, Tail(plan),
                             Append(calls, Head(plan)), state)
             EXCEPT !.kind = "err", !.s = s, !.err = s.fault.err]
    ELSE RunPlan_KeepsGoing(Mutate(s, Head(plan), c), c, Tail(plan),
                            Append(calls, Head(plan)),
                            ReadBack(state, Head(plan),
                                     Mutate(s, Head(plan), c)))

\* The operations of an arm, one after the other, each under its own
\* borrow of the device: the first failing operation ends the arm with `?`.
RECURSIVE RunPlan(_, _, _, _, _)
RunPlan(s, c, plan, calls, state) ==
    IF plan = <<>>
    THEN [kind |-> "ok", s |-> s, calls |-> calls, err |-> NoError,
          state |-> state]
    ELSE LET op == Head(plan) IN
         IF s.fault.op = op
         THEN [kind |-> "err", s |-> s, calls |-> Append(calls, op),
               err |-> s.fault.err, state |-> state]
         ELSE LET s2 == Mutate(s, op, c) IN
              RunPlan(s2, c, Tail(plan), Append(calls, op),
                      ReadBack(state, op, s2))

\* Device::execute_inner.  Result kinds:
\*   "ok"    Ok(state)
\*   "err"   Err(ExecuteError::from(err))
\*   "panic" panic!("Unsupported") on an empty slot, or the unwrap() of an
\*           absent unit / amount of Dispense
execute_inner(d, c) ==
    IF c.tag \notin DOMAIN ArmSlot
    THEN [kind |-> "ok", d |-> d, calls |-> <<>>, err |-> NoError,
          state |-> DefaultCommandState]
    ELSE LET slot == ArmSlot[c.tag] IN
         IF \/ slot \notin Populated(d)
            \/ c.tag = "Dispense" /\ c.o1 /\ (~c.o3 \/ ~c.o2)
         THEN [kind |-> "panic", d |-> d, calls |-> <<>>, err |-> NoError,
               state |-> DefaultCommandState]
         ELSE LET r == RunPlan(SlotState(d, slot), c, Plan(c), <<>>,
                               DefaultCommandState)
              IN [kind |-> r.kind, d |-> WithSlotState(d, slot, r.s),
                  calls |-> r.calls, err |-> r.err, state |-> r.state]

\* struct CommandOutput.
NoOutput ==
    [id |-> "", status |-> "",
     state |-> [some |-> FALSE, v |-> DefaultCommandState],
     error |-> [some |-> FALSE, v |-> NoError],
     debug_string |-> NoneStr]

\* Device::execute sending the server error to the caller: the OFFLINE
\* result carries the error as errorCode next to the debugString.
CommandOutputOf_OfflineWithCode(id, r) ==
    IF r.kind = "ok"
    THEN [id |-> id, status |-> "SUCCESS", state |-> Some(r.state),
          error |-> [some |-> FALSE, v |-> NoError],
          debug_string |-> NoneStr]
    ELSE IF From(r.err).kind = "Serializable"
    THEN [id |-> id, status |-> "ERROR",
          state |-> [some |-> FALSE, v |-> DefaultCommandState],
          error |-> Some(From(r.err).e),
          debug_string |-> NoneStr]
    ELSE [id |-> id, status |-> "OFFLINE",
          state |-> [some |-> FALSE, v |-> DefaultCommandState],
          error |-> Some(From(r.err).e),
          debug_string |-> Some(to_string(From(r.err).e))]

\* Device::execute: the CommandOutput for the result of execute_inner.
CommandOutputOf(id, r) ==
    IF r.kind = "ok"
    THEN [id |-> id, status |-> "SUCCESS", state |-> Some(r.state),
          error |-> [some |-> FALSE, v |-> NoError],
          debug_string |-> NoneStr]
    ELSE IF From(r.err).kind = "Serializable"
    THEN [id |-> id, status |-> "ERROR",
          state |-> [some |-> FALSE, v |-> DefaultCommandState],
          error |-> Some(From(r.err).e),
          debug_string |-> NoneStr]
    ELSE [id |-> id, status |-> "OFFLINE",
          state |-> [some |-> FALSE, v |-> DefaultCommandState],
          error |-> [some |-> FALSE, v |-> NoError],
          debug_string |-> Some(to_string(From(r.err).e))]

\* impl Serialize for SerializableError: the errorCode sent to the caller.
ErrorCode(out) ==
    IF out.error.some THEN Some(to_string(out.error.v)) ELSE NoneStr

-----------------------------------------------------------------------------
(* QUERY *)

\* The state getters query_get_states invokes, in order:
\* <<slot, getter, field of TraitsQueryDeviceState>>.
QueryGetters == <<
    <<"app_selector", "get_current_application", "current_application">>,
    <<"arm_disarm", "is_armed", "is_armed">>,
    <<"arm_disarm", "current_arm_level", "current_arm_level">>,
    <<"arm_disarm", "exit_allowance", "exit_allowance">>,
    <<"brightness", "get_brightness", "brightness">>,
    <<"color_setting", "get_color", "color">>,
    <<"cook", "get_current_cooking_mode", "current_cooking_mode">>,
    <<"cook", "get_current_food_preset", "current_food_preset">>,
    <<"cook", "get_current_food_unit", "current_food_unit">>,
    <<"dispense", "get_dispense_items_state", "dispense_items">>,
    <<"dock", "is_docked", "is_docked">>,
    <<"energy_storage", "get_descriptive_capacity_remaining", "descriptive_capacity_remaining">>,
    <<"energy_storage", "get_capacity_remaining", "capacity_remaining">>,
    <<"energy_storage", "get_capacity_until_full", "capacity_until_full">>,
    <<"energy_storage", "is_charging", "is_charging">>,
    <<"energy_storage", "is_plugged_in", "is_plugged_in">>,
    <<"fan_speed", "get_current_fan_speed_setting", "current_fan_speed_setting">>,
    <<"fan_speed", "get_current_fan_speed_percent", "current_fan_speed_percent">>,
    <<"fill", "is_filled", "is_filled">>,
    <<"fill", "get_current_fill_level", "current_fill_level">>,
    <<"fill", "get_current_fill_percent", "current_fill_percent">>,
    <<"humidity_setting", "get_current_humidity_set_point_range", "humidity_setpoint_percent">>,
    <<"humidity_setting", "get_current_humidity_ambient_percent", "humidity_ambient_percent">>,
    <<"input_selector", "get_current_input", "current_input">>,
    <<"light_effects", "get_active_light_effect", "active_light_effect">>,
    <<"light_effects", "get_light_efccect_end_unix_timestamp_sec", "light_effect_end_unix_timestamp_sec">>,
    <<"lock_unlock", "is_locked", "is_locked">>,
    <<"lock_unlock", "is_jammed", "is_jammed">>,
    <<"media_state", "get_activity_state", "activity_state">>,
    <<"media_state", "get_playback_state", "playback_state">>,
    <<"modes", "get_current_mode_settings", "current_mode_setting">>,
    <<"network_control", "is_network_enabled", "network_enabled">>,
    <<"network_control", "get_network_settings", "network_settings">>,
    <<"network_control", "is_guest_network_enabled", "guest_network_enabled">>,
    <<"network_control", "get_guest_network_settings", "guest_network_settings">>,
    <<"network_control", "get_num_connected_devices", "num_connected_devices">>,
    <<"network_control", "get_network_usage_mb", "network_usage_mb">>,
    <<"network_control", "is_network_usage_unlimited", "network_usage_unlimited">>,
    <<"network_control", "get_last_network_download_speed_test", "last_network_download_speed_test">>,
    <<"network_control", "get_last_network_upload_speed_test", "last_network_upload_speed_test">>,
    <<"network_control", "is_network_speed_test_in_progress", "network_speed_test_in_progress">>,
    <<"network_control", "get_network_profiles_state", "network_profiles_state">>,
    <<"on_off", "is_on", "on">>,
    <<"open_close", "get_open_percent", "open_percent">>,
    <<"open_close", "get_open_state", "open_state">>,
    <<"rotation", "get_rotation_degrees", "rotation_degrees">>,
    <<"rotation", "get_rotation_percent", "rotation_percent">>,
    <<"run_cycle", "get_current_run_cycle", "current_run_cycle">>,
    <<"run_cycle", "get_current_total_remaining_time", "current_total_remaining_time">>,
    <<"run_cycle", "get_current_cycle_remaining_time", "current_cycle_remaining_time">>,
    <<"sensor_state", "get_current_sensor_states", "current_sensor_state_data">>,
    <<"software_update", "get_last_software_update_unix_timestamp_sec", "last_software_update_unix_timestamp_sec">>,
    <<"start_stop", "is_running", "is_running">>,
    <<"start_stop", "is_paused", "is_paused">>,
    <<"start_stop", "get_active_zones", "active_zones">>,
    <<"status_report", "get_current_status_report", "current_status_report">>,
    <<"temperature_control", "get_temperature_setpoint_celsius", "temperature_setpoint_celsius">>,
    <<"temperature_control", "get_temperatuer_ambient_celsius", "temperature_ambient_celsius">>,
    <<"temperature_setting", "get_active_thermostat_mode", "active_thermostat_mode">>,
    <<"temperature_setting", "get_target_temp_reached_estimate_unix_timestamp_sec", "target_temp_reached_estimate_unix_timestamp_sec">>,
    <<"temperature_setting", "get_thermostat_humidity_ambient", "thermostat_humidity_ambient">>,
    <<"temperature_setting", "get_thermostat_mode", "thermostat_mode">>,
    <<"timer", "get_timer_remaining_sec", "timer_remaining_sec">>,
    <<"timer", "is_timer_paused", "timer_paused">>,
    <<"volume", "get_current_volume", "current_volume">>,
    <<"volume", "is_muted", "is_muted">>,
    <<"toggles", "get_current_toggle_settings", "current_toggle_settings">>
>>

\* What a getter of the concrete device returns.
GetterValue(s, getter) ==
    CASE getter = "is_on" -> BoolStr(s.on)
      [] getter = "is_locked" -> BoolStr(s.locked)
      [] OTHER -> "value"

\* A getter that clears the fault it reports: the failing getter works
\* from the next call on.
AfterGetter_ClearsFault(s, getter) ==
    IF s.fault.op = getter THEN [s EXCEPT !.fault = NoFault] ELSE s

\* The concrete device after a getter returned.  The getters take &self
\* and are called under borrow(): the device is as it was before the call.
AfterGetter(s, getter) == s

\* The concrete device after the getter calls of a query or a sync, one
\* after the other.
RECURSIVE AfterGetters(_, _)
AfterGetters(s, calls) ==
    IF calls = <<>> THEN s
    ELSE AfterGetters(AfterGetter(s, Head(calls)), Tail(calls))

\* The Device after a query or a sync that made the given calls: every
\* capability handle shares the device instance the calls were made on.
AfterReads(d, calls) == [d EXCEPT !.inner = AfterGetters(d.inner, calls)]

\* Device::query_get_states from the i-th getter on: the fields collected
\* from the getters of the populated slots, or the error of the first getter
\* that fails.
RECURSIVE GetStates(_, _, _, _)
GetStates(d, i, states, calls) ==
    IF i > Len(QueryGetters)
    THEN [ok |-> TRUE, states |-> states, calls |-> calls, err |-> NoError]
    ELSE LET slot == QueryGetters[i][1]
             getter == QueryGetters[i][2]
             field == QueryGetters[i][3]
         IN IF slot \notin Populated(d)
            THEN GetStates(d, i + 1, states, calls)
            ELSE LET s == SlotState(d, slot) IN
                 IF s.fault.op = getter
                 THEN [ok |-> FALSE, states |-> states,
                       calls |-> Append(calls, getter), err |-> s.fault.err]
                 ELSE GetStates(d, i + 1,
                                states \cup {<<field, GetterValue(s, getter)>>},
                                Append(calls, getter))

query_get_states(d) == GetStates(d, 1, {}, <<>>)

\* struct QueryDeviceState { required: RequiredQueryDeviceState, traits }.
NoQueryState ==
    [status |-> "", on |-> FALSE, online |-> FALSE, error_code |-> NoneStr,
     traits |-> [some |-> FALSE, v |-> {}]]

\* Device::query returning the states collected before the failing getter
\* along with the ERROR status.
query_PartialStates(d) ==
    LET r == query_get_states(d) IN
    [state |-> [status |-> IF ~r.ok THEN "ERROR"
                           ELSE IF ~d.inner.online THEN "OFFLINE"
                           ELSE "SUCCESS",
                on |-> r.ok,
                online |-> d.inner.online,
                error_code |-> IF r.ok THEN NoneStr
                               ELSE Some(to_string(r.err)),
                traits |-> IF r.ok /\ ~d.inner.online
                           THEN [some |-> FALSE, v |-> {}]
                           ELSE Some(r.states)],
     calls |-> Append(r.calls, "is_online"), err |-> r.err]

\* Device::query: the states are collected first, then the online check.
\* state is the QueryDeviceState returned, calls the operations invoked on
\* the concrete device, err the error a getter raised (NoError when none).
query(d) ==
    LET r == query_get_states(d) IN
    IF ~r.ok
    THEN [state |-> [status |-> "ERROR", on |-> FALSE,
                     online |-> d.inner.online,
                     error_code |-> Some(to_string(r.err)),
                     traits |-> [some |-> FALSE, v |-> {}]],
          calls |-> Append(r.calls, "is_online"), err |-> r.err]
    ELSE IF ~d.inner.online
    THEN [state |-> [status |-> "OFFLINE", on |-> TRUE, online |-> FALSE,
                     error_code |-> NoneStr,
                     traits |-> [some |-> FALSE, v |-> {}]],
          calls |-> Append(r.calls, "is_online"), err |-> NoError]
    ELSE [state |-> [status |-> "SUCCESS", on |-> TRUE, online |-> TRUE,
                     error_code |-> NoneStr,
                     traits |-> Some(r.states)],
          calls |-> Append(r.calls, "is_online"), err |-> NoError]

\* The getters of QueryGetters.
IsGetter(op) == \E i \in 1..Len(QueryGetters) : QueryGetters[i][2] = op

\* #[serde(flatten)] of required and traits: the `on` values of the
\* serialized QueryDeviceState, the one of RequiredQueryDeviceState first.
\* With traits = Some(states) the field on of the states is written as
\* well, null when it is None; with traits = None nothing is written.
SerializedOn(q) ==
    <<BoolStr(q.on)>>
    \o (IF ~q.traits.some THEN <<>>
        ELSE IF \E p \in q.traits.v : p[1] = "on"
        THEN <<(CHOOSE p \in q.traits.v : p[1] = "on")[2]>>
        ELSE <<"null">>)

-----------------------------------------------------------------------------
(* SYNC of a device *)

\* The attribute getters of Device::sync_set_attributes in the order it
\* calls them: <<slot, getter, field of SyncAttributes>>.  The value of
\* get_color_model_support fills color_model and color_temperature_range.
SyncGetters == <<
    <<"app_selector", "get_available_applications", "available_applications">>,
    <<"arm_disarm", "get_available_arm_levels", "available_arm_levels.levels">>,
    <<"arm_disarm", "is_ordered", "available_arm_levels.ordered">>,
    <<"brightness", "is_command_only_brightness", "command_only_brightness">>,
    <<"camera_stream", "get_supported_camera_stream_protocols", "camera_stream_supported_protocols">>,
    <<"camera_stream", "need_auth_token", "camera_stream_need_auth_token">>,
    <<"channel", "get_available_channels", "available_channels">>,
    <<"channel", "is_command_only_channels", "command_only_channels">>,
    <<"color_setting", "is_command_only_color_setting", "command_only_color_setting">>,
    <<"color_setting", "get_color_model_support", "color_model">>,
    <<"cook", "get_supported_cooking_modes", "supported_cooking_modes">>,
    <<"cook", "get_food_presets", "food_presets">>,
    <<"dispense", "get_supported_dispense_items", "supported_dispense_items">>,
    <<"dispense", "get_supported_dispense_presets", "supported_dispense_presets">>,
    <<"energy_storage", "is_query_only", "query_only_energy_storage">>,
    <<"energy_storage", "get_distance_unit_for_ux", "energy_storage_distance_unit_for_ux">>,
    <<"energy_storage", "is_rechargable", "is_rechargeable">>,
    <<"fan_speed", "is_reversable", "reversible">>,
    <<"fan_speed", "is_command_only_fan_speed", "command_only_fan_speed">>,
    <<"fan_speed", "get_available_fan_speeds", "available_fan_speeds">>,
    <<"fan_speed", "is_support_fan_speed_percent", "supports_fan_speed_percent">>,
    <<"fill", "get_available_fill_levels", "available_fill_levels">>,
    <<"humidity_setting", "get_humidity_set_point_range_minmax", "humidity_set_point_range">>,
    <<"humidity_setting", "is_command_only_humidity_settings", "command_only_humidity_setting">>,
    <<"humidity_setting", "is_query_only_humidity_setting", "query_only_humidity_setting">>,
    <<"input_selector", "get_available_inputs", "available_inputs">>,
    <<"input_selector", "is_command_only_input_selector", "command_only_input_selector">>,
    <<"input_selector", "has_ordered_inputs", "ordered_inputs">>,
    <<"light_effects", "get_default_color_loop_duration", "default_color_loop_duration">>,
    <<"light_effects", "get_default_sleep_duration", "default_sleep_duration">>,
    <<"light_effects", "get_default_wake_duration", "default_wake_duration">>,
    <<"light_effects", "get_supported_effects", "supported_effects">>,
    <<"media_state", "does_support_activity_state", "support_activity_state">>,
    <<"media_state", "does_support_playback_state", "support_playback_state">>,
    <<"modes", "get_available_modes", "available_modes">>,
    <<"modes", "is_command_only_modes", "command_only_modes">>,
    <<"modes", "is_query_only_modes", "query_only_modes">>,
    <<"network_control", "get_network_profiles", "network_profiles">>,
    <<"network_control", "supports_disabling_guest_network", "supports_enabling_guest_network">>,
    <<"network_control", "supports_disabling_guest_network", "supports_disabling_guest_network">>,
    <<"network_control", "supports_getting_guest_network_password", "supports_getting_guest_network_password">>,
    <<"network_control", "supports_enabling_network_profile", "supports_enabling_network_profile">>,
    <<"network_control", "supports_disabling_network_profile", "supports_disabling_network_profile">>,
    <<"network_control", "supports_network_download_speed_test", "supports_network_download_speed_test">>,
    <<"network_control", "supports_network_upload_speed_test", "supports_network_upload_speed_test">>,
    <<"on_off", "is_command_only", "command_only_on_off">>,
    <<"on_off", "is_query_only", "query_only_on_off">>,
    <<"open_close", "is_discrete_only_open_close", "discrete_only_open_close">>,
    <<"open_close", "get_supported_opening_directions", "open_direction">>,
    <<"open_close", "is_command_only_open_close", "command_only_open_close">>,
    <<"open_close", "is_query_only_open_close", "query_only_open_close">>,
    <<"rotation", "supports_degrees", "supports_degrees">>,
    <<"rotation", "supports_percent", "supports_percent">>,
    <<"rotation", "get_rotation_degree_range", "rotation_degrees_range">>,
    <<"rotation", "supports_continuous_rotation", "supports_continuous_rotation">>,
    <<"rotation", "is_command_only_rotation", "command_only_rotation">>,
    <<"scene", "is_reversible", "scene_reversible">>,
    <<"sensor_state", "get_supported_sensor_states", "sensor_states_supported">>,
    <<"start_stop", "is_pausable", "pausable">>,
    <<"start_stop", "get_available_zones", "available_zones">>,
    <<"temperature_control", "get_temperature_range", "temperature_range">>,
    <<"temperature_control", "get_temperature_step_celsius", "temperature_step_celsius">>,
    <<"temperature_control", "get_temperature_unit_for_ux", "temperature_unit_for_ux">>,
    <<"temperature_control", "is_command_only_temperature_control", "command_only_temperature_control">>,
    <<"temperature_control", "is_query_only_temperature_control", "query_only_temperature_control">>,
    <<"temperature_setting", "get_available_thermostat_modes", "available_thermostat_modes">>,
    <<"temperature_setting", "get_thermostat_temperature_range", "thermostat_temperature_range">>,
    <<"temperature_setting", "get_thermostat_temperature_unit", "thermostat_temperature_unit">>,
    <<"temperature_setting", "get_buffer_range_celsius", "buffer_range_celsius">>,
    <<"temperature_setting", "is_command_only_temperature_setting", "command_only_temperature_setting">>,
    <<"temperature_setting", "is_query_only_temperature_setting", "query_only_temperature_setting">>,
    <<"timer", "get_max_timer_limit_sec", "max_timer_limit_sec">>,
    <<"timer", "is_command_only_timer", "command_only_timer">>,
    <<"toggles", "get_available_toggles", "available_toggles">>,
    <<"toggles", "is_command_only_toggles", "command_only_toggles">>,
    <<"toggles", "is_query_only_toggles", "query_only_toggles">>,
    <<"transport_control", "get_supported_control_commands", "transport_control_supported_commands">>,
    <<"volume", "get_volume_max_level", "volume_max_level">>,
    <<"volume", "can_mute_and_unmute", "volume_can_mute_and_unmute">>,
    <<"volume", "get_volume_default_percentage", "volume_default_percentage">>,
    <<"volume", "get_level_step_size", "level_step_size">>,
    <<"volume", "is_command_only_volume", "command_only_volume">>
>>

\* DeviceType::as_device_type_string for the device types of the model.
as_device_type_string(device_type) ==
    CASE device_type = "Switch" -> "action.devices.types.SWITCH"
      [] device_type = "Outlet" -> "action.devices.types.OUTLET"
      [] device_type = "AcUnit" -> "action.devices.types.AC_UNIT"

\* Device::sync_set_attributes from the i-th getter on: the attributes
\* collected from the getters of the populated slots, or the error of the
\* first getter that fails (`?`).
RECURSIVE SetAttributes(_, _, _, _)
SetAttributes(d, i, attributes, calls) ==
    IF i > Len(SyncGetters)
    THEN [ok |-> TRUE, attributes |-> attributes, calls |-> calls,
          err |-> NoError]
    ELSE IF SyncGetters[i][1] \notin Populated(d)
    THEN SetAttributes(d, i + 1, attributes, calls)
    ELSE IF SlotState(d, SyncGetters[i][1]).fault.op = SyncGetters[i][2]
    THEN [ok |-> FALSE, attributes |-> attributes,
          calls |-> Append(calls, SyncGetters[i][2]),
          err |-> SlotState(d, SyncGetters[i][1]).fault.err]
    ELSE SetAttributes(d, i + 1,
                       attributes \cup {<<SyncGetters[i][3], "value">>},
                       Append(calls, SyncGetters[i][2]))

sync_set_attributes(d) == SetAttributes(d, 1, {}, <<>>)

\* fulfillment::response::sync::Device, reduced to id, type, trait list and
\* attributes.
NoSyncDevice ==
    [id |-> "", device_type |-> "", traits |-> <<>>, attributes |-> {}]

\* The identity getters Device::sync calls on the concrete device before the
\* attributes are collected.
IdentityGetters ==
    <<"get_device_name", "get_device_info", "will_report_state",
      "get_room_hint">>

\* Device::sync with r the result of sync_set_attributes: Ok(device) or
\* the error of the failing attribute getter.
SyncResult(d, r) ==
    [ok |-> r.ok,
     device |-> IF r.ok
                THEN [id |-> d.id,
                      device_type |-> as_device_type_string(d.device_type),
                      traits |-> d.traits,
                      attributes |-> r.attributes]
                ELSE NoSyncDevice,
     calls |-> IdentityGetters \o r.calls,
     err |-> r.err]

sync(d) == SyncResult(d, sync_set_attributes(d))

-----------------------------------------------------------------------------
(* Borrows of the device instance: every call on the concrete device goes
   through borrow() or borrow_mut() of the RefCell behind Device.inner and
   the capability handles *)

\* The borrow a call is made under: borrow_mut() for the operations of
\* execute_inner, but for the read-back is_locked, and borrow() for the
\* getters of query and sync.
BorrowMode(op) ==
    IF op = "is_locked" \/ IsGetter(op) \/ op = "is_online"
       \/ op \in {IdentityGetters[k] : k \in 1..Len(IdentityGetters)}
       \/ \E i \in 1..Len(SyncGetters) : SyncGetters[i][2] = op
    THEN "shared"
    ELSE "mut"

Acquire(op) == <<"acquire", BorrowMode(op)>>

Release(op) == <<"release", BorrowMode(op)>>

\* The borrows of execute_inner and of query for the calls made: each call
\* is a statement of its own, whose Ref or RefMut temporary is dropped at
\* the end of the statement.
RECURSIVE BorrowPerCall(_)
BorrowPerCall(calls) ==
    IF calls = <<>> THEN <<>>
    ELSE <<Acquire(Head(calls)), Release(Head(calls))>>
         \o BorrowPerCall(Tail(calls))

\* The borrows of sync for the calls made, from the i-th call on.
\* get_device_name and get_device_info are let statements.  The Refs of
\* will_report_state and get_room_hint are temporaries of the struct
\* expression sync returns and live until it is evaluated, over the whole
\* of sync_set_attributes.  In sync_set_attributes the Refs of
\* get_available_arm_levels and is_ordered are temporaries of one statement
\* and dropped at its end in reverse order; every other getter is a
\* statement of its own.
RECURSIVE SyncBorrowsFrom(_, _)
SyncBorrowsFrom(calls, i) ==
    IF i > Len(calls)
    THEN <<Release("get_room_hint"), Release("will_report_state")>>
    ELSE IF calls[i] \in {"will_report_state", "get_room_hint"}
    THEN <<Acquire(calls[i])>> \o SyncBorrowsFrom(calls, i + 1)
    ELSE IF calls[i] = "get_available_arm_levels" /\ i < Len(calls)
    THEN <<Acquire(calls[i]), Acquire(calls[i + 1]),
           Release(calls[i + 1]), Release(calls[i])>>
         \o SyncBorrowsFrom(calls, i + 2)
    ELSE <<Acquire(calls[i]), Release(calls[i])>>
         \o SyncBorrowsFrom(calls, i + 1)

\* The borrow events of one Device operation that made the given calls.
Borrows(op, calls) ==
    IF op = "sync" THEN SyncBorrowsFrom(calls, 1) ELSE BorrowPerCall(calls)

\* RefCell: the borrow state after an event.  borrow() fails when an
\* exclusive borrow is outstanding, borrow_mut() when any borrow is; peak
\* is the most borrows outstanding at once, spanned whether an exclusive
\* borrow was ever outstanding together with another borrow.
AfterBorrow(st, ev) ==
    IF ev[1] = "release"
    THEN IF ev[2] = "mut" THEN [st EXCEPT !.mut = FALSE]
         ELSE [st EXCEPT !.shared = @ - 1]
    ELSE IF ev[2] = "mut"
    THEN IF st.mut \/ st.shared > 0 THEN [st EXCEPT !.failed = TRUE]
         ELSE [st EXCEPT !.mut = TRUE,
                         !.peak = IF @ < 1 THEN 1 ELSE @]
    ELSE IF st.mut THEN [st EXCEPT !.failed = TRUE]
    ELSE [st EXCEPT !.shared = @ + 1,
                    !.peak = IF @ < st.shared + 1 THEN st.shared + 1 ELSE @]

RECURSIVE RunBorrows(_, _)
RunBorrows(st, events) ==
    IF events = <<>> \/ st.failed THEN st
    ELSE RunBorrows(AfterBorrow(st, Head(events)), Tail(events))

\* The borrow state a Device operation ends in.
BorrowOutcome(op, calls) ==
    RunBorrows([shared |-> 0, mut |-> FALSE, failed |-> FALSE, peak |-> 0],
               Borrows(op, calls))

-----------------------------------------------------------------------------
(* The orchestrator of lib.rs: Homelander over its own Device, whose slots
   hold Box<T> clones *)

\* The most devices in the registry.
MaxDevices == 2

\* The most device ids and the most commands of a command group.
MaxIds == 2

MaxCmds == 2

\* The non-empty sequences over S of length at most n.
SeqsUpTo(S, n) == UNION {[1..k -> S] : k \in 1..n}

\* lib.rs Device::set_<slot>: device_traits.<slot> = Some(self.inner.clone())
\* on a Box<T>: the slot gets its own copy of the device as it is now.
lib_set_trait(d, slot) ==
    [d EXCEPT !.device_traits =
                  (slot :> [shared |-> FALSE, own |-> d.inner])
                      @@ d.device_traits,
              !.traits = Append(d.traits, RegisterTag[slot])]

\* A device set up with the given slots, in order.
RECURSIVE lib_build(_, _)
lib_build(d, slots) ==
    IF slots = <<>> THEN d
    ELSE lib_build(lib_set_trait(d, Head(slots)), Tail(slots))

\* The variants of CommandType that have an arm in lib.rs
\* Device::execute_inner; every other variant reaches `_ => {}`.
LibArms == {
    "ArmDisarm", "BrightnessAbsolute", "BrightnessRelative", "ColorAbsolute",
    "Cook", "Dispense", "Dock", "Charge", "SetFanSpeed",
    "SetFanSpeedRelative", "Reverse", "Fill", "SetInput", "NextInput",
    "PreviousInput", "ColorLoop", "Sleep", "StopEffect", "Wake", "Locate",
    "LockUnlock", "SetModes", "EnableDisableGuestNetwork",
    "EnableDisableNetworkProfile", "GetGuestNetworkPassword",
    "TestNetworkSpeed", "OnOff"
}

\* The slot an arm of lib.rs Device::execute_inner matches on: the same
\* slot as the arm of device.rs.
lib_slot(c) == ArmSlot[c.tag]

\* The operations an arm of lib.rs Device::execute_inner calls.  The
\* ArmDisarm arm calls cancel_arm and returns when cancel is Some(true), and
\* otherwise arm_with_level or arm; the LockUnlock arm calls set_locked and
\* reads nothing back; the other arms call what the arms of device.rs call.
\* A command without an arm reaches `_ => {}` and calls nothing.
lib_plan(c) ==
    IF c.tag \notin LibArms THEN <<>>
    ELSE IF c.tag = "LockUnlock" THEN <<"set_locked">>
    ELSE IF c.tag # "ArmDisarm" THEN Plan(c)
    ELSE IF c.o1 /\ c.b2 THEN <<"cancel_arm">>
    ELSE IF c.o2 THEN <<"arm_with_level">>
    ELSE <<"arm">>

\* The ExecuteError an arm returns for the error of its operation.  The
\* cancel path of ArmDisarm classifies the error itself (Other is Server,
\* the rest Serializable); the other operations end with `?`.
lib_error_kind(c, r) ==
    IF r.kind = "ok" THEN ""
    ELSE IF c.tag = "ArmDisarm" /\ c.o1 /\ c.b2
    THEN (IF r.err.variant = "Other" THEN "Server" ELSE "Serializable")
    ELSE From(r.err).kind

lib_inner_result(d, c, r) ==
    [kind |-> r.kind, d |-> WithSlotState(d, lib_slot(c), r.s),
     calls |-> r.calls, err |-> r.err, error_kind |-> lib_error_kind(c, r)]

lib_execute_inner(d, c) ==
    IF c.tag \notin LibArms
    THEN [kind |-> "ok", d |-> d, calls |-> <<>>, err |-> NoError,
          error_kind |-> ""]
    ELSE IF \/ lib_slot(c) \notin Populated(d)
            \/ c.tag = "Dispense" /\ c.o1 /\ (~c.o3 \/ ~c.o2)
    THEN [kind |-> "panic", d |-> d, calls |-> <<>>, err |-> NoError,
          error_kind |-> ""]
    ELSE lib_inner_result(d, c,
                          RunPlan(SlotState(d, lib_slot(c)), c, lib_plan(c),
                                  <<>>, DefaultCommandState))

\* lib.rs Device::execute: Ok(CommandOutput) for success and for a
\* serializable error, Err(e) for a server error.
lib_output(id, r) ==
    [kind |-> IF r.kind = "panic" THEN "panic"
              ELSE IF r.kind = "err" /\ r.error_kind = "Server" THEN "err"
              ELSE "ok",
     d |-> r.d,
     calls |-> r.calls,
     err |-> r.err,
     output |-> IF r.kind = "ok"
                THEN [id |-> id, status |-> "SUCCESS",
                      state |-> Some(DefaultCommandState),
                      error |-> [some |-> FALSE, v |-> NoError],
                      debug_string |-> NoneStr]
                ELSE IF r.kind = "err" /\ r.error_kind = "Serializable"
                THEN [id |-> id, status |-> "ERROR",
                      state |-> [some |-> FALSE, v |-> DefaultCommandState],
                      error |-> Some(r.err),
                      debug_string |-> NoneStr]
                ELSE NoOutput]

lib_execute(d, c) == lib_output(d.id, lib_execute_inner(d, c))

\* One step of the map of Homelander::execute: the result r of
\* Device::execute on device i joins the collected results; log holds the
\* <<device index, operation>> calls made.
Collected(acc, i, r) ==
    [panicked |-> r.kind = "panic",
     devs |-> [acc.devs EXCEPT ![i] = r.d],
     results |-> IF r.kind = "panic" THEN acc.results
                 ELSE Append(acc.results, r),
     log |-> acc.log \o [k \in 1..Len(r.calls) |-> <<i, r.calls[k]>>]]

\* The map of Homelander::execute: Device::execute on every device with the
\* id, in registry order.
RECURSIVE ExecuteMatching(_, _, _, _)
ExecuteMatching(acc, i, device_id, c) ==
    IF i > Len(acc.devs) \/ acc.panicked THEN acc
    ELSE ExecuteMatching(
             IF acc.devs[i].id # device_id THEN acc
             ELSE Collected(acc, i, lib_execute(acc.devs[i], c)),
             i + 1, device_id, c)

\* FirstResult with Ok(None) taken for a failure: a device id that no
\* device has is an error of the request.
FirstResult_NoneIsErr(m) ==
    [kind |-> IF m.panicked THEN "panic"
              ELSE IF m.results = <<>> THEN "err"
              ELSE IF m.results[1].kind = "err" THEN "err"
              ELSE "some",
     devs |-> m.devs,
     log |-> m.log,
     err |-> IF ~m.panicked /\ m.results # <<>> THEN m.results[1].err
             ELSE NoError,
     output |-> IF ~m.panicked /\ m.results # <<>> THEN m.results[1].output
                ELSE NoOutput]

\* Homelander::execute: Ok(None) when no device has the id, otherwise the
\* first collected result, Ok(Some(output)) or Err.
FirstResult(m) ==
    [kind |-> IF m.panicked THEN "panic"
              ELSE IF m.results = <<>> THEN "none"
              ELSE IF m.results[1].kind = "err" THEN "err"
              ELSE "some",
     devs |-> m.devs,
     log |-> m.log,
     err |-> IF ~m.panicked /\ m.results # <<>> THEN m.results[1].err
             ELSE NoError,
     output |-> IF ~m.panicked /\ m.results # <<>> THEN m.results[1].output
                ELSE NoOutput]

Homelander_execute(devs, device_id, c) ==
    FirstResult(ExecuteMatching([panicked |-> FALSE, devs |-> devs,
                                 results |-> <<>>, log |-> <<>>],
                                1, device_id, c))

\* An input of a request: Input::Sync or Input::Execute with its command
\* groups, each a list of device ids and a list of commands.
SyncInput == [intent |-> "SYNC", commands |-> <<>>]

ExecuteInput(commands) == [intent |-> "EXECUTE", commands |-> commands]

\* Input::Query(query::Payload { devices }): the requested device ids, kept
\* as the device list of one group without commands.
QueryInput(ids) ==
    [intent |-> "QUERY",
     commands |-> <<[devices |-> ids, execution |-> <<>>]>>]

\* The (device id, command) pairs of a list of command groups in the order
\* handle_request evaluates them: groups in order, within a group device
\* ids in order, per device id the commands in order.
RECURSIVE PairsOfIds(_, _)
PairsOfIds(ids, execution) ==
    IF ids = <<>> THEN <<>>
    ELSE [k \in 1..Len(execution) |->
              [id |-> Head(ids), c |-> execution[k]]]
         \o PairsOfIds(Tail(ids), execution)

RECURSIVE Pairs(_)
Pairs(commands) ==
    IF commands = <<>> THEN <<>>
    ELSE PairsOfIds(Head(commands).devices, Head(commands).execution)
         \o Pairs(Tail(commands))

\* fulfillment::response::execute::Command built from a CommandOutput.
ResponseCommand(output) ==
    [ids |-> <<output.id>>, status |-> output.status,
     states |-> IF output.status = "SUCCESS" THEN output.state
                ELSE [some |-> FALSE, v |-> DefaultCommandState],
     error_code |-> IF output.status = "SUCCESS" THEN NoneStr
                    ELSE ErrorCode(output),
     debug_string |-> NoneStr]

\* Dispatched with the latest pair put first: the entries and the capability
\* calls of a request come out in the reverse of the evaluation order.
Dispatched_Prepends(acc, r) ==
    [kind |-> IF r.kind \in {"panic", "err"} THEN r.kind ELSE "ok",
     devs |-> r.devs,
     outputs |-> IF r.kind = "some"
                 THEN <<ResponseCommand(r.output)>> \o acc.outputs
                 ELSE acc.outputs,
     log |-> r.log \o acc.log,
     err |-> r.err]

\* Dispatched with the filter of Ok(None) left out: an entry is collected
\* for a pair that no device matched as well.
Dispatched_KeepsNone(acc, r) ==
    [kind |-> IF r.kind \in {"panic", "err"} THEN r.kind ELSE "ok",
     devs |-> r.devs,
     outputs |-> IF r.kind \in {"some", "none"}
                 THEN Append(acc.outputs, ResponseCommand(r.output))
                 ELSE acc.outputs,
     log |-> acc.log \o r.log,
     err |-> r.err]

\* One pair of the nested collects of handle_request: r is what
\* Homelander::execute returned for it.  Ok(None) is filtered out,
\* Ok(Some(output)) collected, Err ends the collects.
Dispatched(acc, r) ==
    [kind |-> IF r.kind \in {"panic", "err"} THEN r.kind ELSE "ok",
     devs |-> r.devs,
     outputs |-> IF r.kind = "some"
                 THEN Append(acc.outputs, ResponseCommand(r.output))
                 ELSE acc.outputs,
     log |-> acc.log \o r.log,
     err |-> r.err]

\* The nested collects of the Execute arm of handle_request: the pairs are
\* dispatched in order until one returns Err, which `?` carries out of
\* every level.
RECURSIVE DispatchPairs(_, _)
DispatchPairs(acc, pairs) ==
    IF pairs = <<>> \/ acc.kind # "ok" THEN acc
    ELSE DispatchPairs(
             Dispatched(acc, Homelander_execute(acc.devs, Head(pairs).id,
                                                Head(pairs).c)),
             Tail(pairs))

\* lib.rs Device::sync, reduced to id, type and trait list: the entry of
\* one device, which has no attributes.
lib_sync(d) ==
    [id |-> d.id, device_type |-> as_device_type_string(d.device_type),
     traits |-> d.traits]

\* Homelander::sync over the registry: the entry of every device, in
\* registry order.
Homelander_sync(devs) == [k \in 1..Len(devs) |-> lib_sync(devs[k])]

\* The calls Homelander::sync makes: lib.rs Device::sync calls the four
\* identity getters on inner, device after device.
Homelander_sync_calls(devs) ==
    [n \in 1..(Len(IdentityGetters) * Len(devs)) |->
        <<((n - 1) \div Len(IdentityGetters)) + 1,
          IdentityGetters[((n - 1) % Len(IdentityGetters)) + 1]>>]

\* ResponsePayload, with the error_code and debug_string of sync::Payload
\* (None in every payload lib.rs builds).
NoPayload ==
    [intent |-> "", commands |-> <<>>, devices |-> <<>>,
     error_code |-> NoneStr, debug_string |-> NoneStr]

\* The payload of an Execute input from the result r of its collects.
ExecutePayload(acc, r) ==
    [kind |-> r.kind, devs |-> r.devs,
     payloads |-> IF r.kind = "ok"
                  THEN Append(acc.payloads,
                              [NoPayload EXCEPT !.intent = "EXECUTE",
                                                !.commands = r.outputs])
                  ELSE acc.payloads,
     log |-> r.log, err |-> r.err]

\* The closure handle_request maps over request.inputs.  Its match has an
\* arm for Input::Execute and one for Input::Sync and none for
\* Input::Query ("TODO QUERY"): a QUERY input gets no payload and the
\* request no response.
MapInput(acc, input) ==
    IF input.intent = "QUERY"
    THEN [acc EXCEPT !.kind = "unimplemented"]
    ELSE IF input.intent = "SYNC"
    THEN [acc EXCEPT !.payloads =
              Append(@, [NoPayload EXCEPT
                             !.intent = "SYNC",
                             !.devices = Homelander_sync(acc.devs)]),
                     !.log = @ \o Homelander_sync_calls(acc.devs)]
    ELSE ExecutePayload(acc,
             DispatchPairs([kind |-> "ok", devs |-> acc.devs,
                            outputs |-> <<>>, log |-> acc.log,
                            err |-> NoError],
                           Pairs(input.commands)))

\* The map over request.inputs of handle_request: every input is evaluated
\* in order, unless one returns Err.
RECURSIVE MapInputs(_, _)
MapInputs(acc, inputs) ==
    IF inputs = <<>> \/ acc.kind # "ok" THEN acc
    ELSE MapInputs(MapInput(acc, Head(inputs)), Tail(inputs))

\* Homelander::handle_request: Ok(Response) with the payload of the first
\* input, Err when an input returned Err, and a panic on remove(0) when the
\* request has no input.
FirstPayload(r) ==
    [kind |-> IF r.kind = "ok" /\ r.payloads = <<>> THEN "panic"
              ELSE r.kind,
     devs |-> r.devs,
     payload |-> IF r.kind = "ok" /\ r.payloads # <<>> THEN r.payloads[1]
                 ELSE NoPayload,
     log |-> r.log,
     err |-> r.err]

handle_request(devs, request) ==
    FirstPayload(MapInputs([kind |-> "ok", devs |-> devs,
                            payloads |-> <<>>, log |-> <<>>,
                            err |-> NoError],
                           request))

\* No request outstanding.
NoResponse ==
    [op |-> "none", request_id |-> "", request |-> <<>>, kind |-> "",
     response_id |-> "", payload |-> NoPayload, log |-> <<>>,
     err |-> NoError, device_id |-> "", removed |-> <<>>,
     registry |-> <<>>]

\* The request ids of the requests served.
RequestIds == {"02", "03"}

\* The ids of the devices added to the registry and named in requests.
HomeIds == {"00", "01"}

\* The commands of the requests: OnOff{on: true} and
\* ArmDisarm{arm: true, cancel: true}.
HomeCommands ==
    {Cmd("OnOff", FALSE, FALSE, FALSE, TRUE, FALSE, 0),
     Cmd("ArmDisarm", TRUE, FALSE, FALSE, TRUE, TRUE, 0)}

\* The devices added to the registry, all online and off: for each id a
\* working device with OnOff and ArmDisarm registered, for "01" also the
\* devices whose cancel_arm fails with AlreadyInState or Other, for "00" also a working device with
\* OnOff alone.
HomeDevices ==
    {lib_build(new([NoInner EXCEPT !.online = TRUE], "Switch", id),
               <<"on_off", "arm_disarm">>) : id \in HomeIds}
    \cup {lib_build(new(s, "Switch", "01"), <<"on_off", "arm_disarm">>) :
            s \in {x \in InnerStates :
                       /\ x.online /\ ~x.on /\ ~x.locked
                       /\ x.fault.op = "cancel_arm"
                       /\ x.fault.err.variant
                              \in {"AlreadyInState", "Other"}}}
    \cup {lib_build(new([NoInner EXCEPT !.online = TRUE], "Switch", "00"),
                    <<"on_off">>)}

\* The command groups of the requests, and those of one device id and one
\* command.
Groups ==
    {[devices |-> ids, execution |-> cs] :
        ids \in SeqsUpTo(HomeIds, MaxIds),
        cs \in SeqsUpTo(HomeCommands, MaxCmds)}

SingleGroups ==
    {[devices |-> <<id>>, execution |-> <<c>>] :
        id \in HomeIds, c \in HomeCommands}

\* The requests served: no input, SYNC, EXECUTE with one command group,
\* EXECUTE with two groups of one pair each, two inputs, a SYNC and an
\* EXECUTE of one pair in either order, and QUERY.
Requests ==
    {<<>>, <<SyncInput>>}
    \cup {<<ExecuteInput(<<g>>)>> : g \in Groups}
    \cup {<<ExecuteInput(<<g, h>>)>> : g, h \in SingleGroups}
    \cup {<<SyncInput, ExecuteInput(<<g>>)>> : g \in SingleGroups}
    \cup {<<ExecuteInput(<<g>>), SyncInput>> : g \in SingleGroups}
    \cup {<<QueryInput(ids)>> : ids \in SeqsUpTo(HomeIds, MaxIds)}

-----------------------------------------------------------------------------
(* State *)

VARIABLES
    staged,     \* the Device being set up and operated on
    devices,    \* Homelander.devices, the registry
    last,       \* the latest operation on staged and what it returned
    response    \* the latest request to the registry and what it returned

vars == <<staged, devices, last, response>>

\* The most queries, and the most syncs, made in a row on a device.
MaxRuns == 2

\* No operation outstanding.
Idle ==
    [op |-> "none", cmd |-> NoCmd, calls |-> <<>>, raised |-> NoError,
     panicked |-> FALSE, output |-> NoOutput, query |-> NoQueryState,
     sync |-> [ok |-> FALSE, device |-> NoSyncDevice], run |-> 0]

\* The device type and id of the device under setup.
StagedType == "Switch"

StagedId == "00"

\* A device as constructed: off, unlocked, online or not, in any fault
\* condition.
InitialInner ==
    {s \in InnerStates : ~s.on /\ ~s.locked}

Init ==
    /\ staged \in {new(s, StagedType, StagedId) : s \in InitialInner}
    /\ devices = <<>>
    /\ last = Idle
    /\ response = NoResponse

\* Device::set_<slot> for a capability the device type implements.
Register(slot) ==
    /\ last = Idle
    /\ Len(staged.traits) < MaxTraits
    /\ staged' = set_trait(staged, slot)
    /\ UNCHANGED <<devices, last, response>>

\* Device::execute(command).
Execute(c) ==
    /\ last = Idle
    /\ LET r == execute_inner(staged, c) IN
       /\ staged' = r.d
       /\ last' = [op |-> "execute", cmd |-> c, calls |-> r.calls,
                   raised |-> r.err, panicked |-> r.kind = "panic",
                   output |-> IF r.kind = "panic" THEN NoOutput
                              ELSE CommandOutputOf(staged.id, r),
                   query |-> NoQueryState, sync |-> Idle.sync,
                   run |-> 0]
    /\ UNCHANGED <<devices, response>>

\* Device::query(), on a device at rest or once more after a query whose
\* result the caller holds; run counts the queries made in a row.
Query ==
    /\ \/ last.op = "none"
       \/ last.op = "query" /\ last.run < MaxRuns
    /\ LET q == query(staged) IN
       /\ last' = [op |-> "query", cmd |-> NoCmd, calls |-> q.calls,
                   raised |-> q.err, panicked |-> FALSE,
                   output |-> NoOutput, query |-> q.state,
                   sync |-> Idle.sync, run |-> last.run + 1]
       /\ staged' = AfterReads(staged, q.calls)
    /\ UNCHANGED <<devices, response>>

\* Device::sync(), on a device at rest or once more after a sync.
Sync ==
    /\ \/ last.op = "none"
       \/ last.op = "sync" /\ last.run < MaxRuns
    /\ LET r == sync(staged) IN
       /\ last' = [op |-> "sync", cmd |-> NoCmd, calls |-> r.calls,
                   raised |-> r.err, panicked |-> FALSE,
                   output |-> NoOutput, query |-> NoQueryState,
                   sync |-> [ok |-> r.ok, device |-> r.device],
                   run |-> last.run + 1]
       /\ staged' = AfterReads(staged, r.calls)
    /\ UNCHANGED <<devices, response>>

\* The caller takes the result; a panic ends the run.
Return ==
    /\ last # Idle
    /\ ~last.panicked
    /\ last' = Idle
    /\ UNCHANGED <<staged, devices, response>>

Next ==
    \/ \E slot \in Implemented : Register(slot)
    \/ \E c \in CommandType : Execute(c)
    \/ Query
    \/ Sync
    \/ Return

Spec == Init /\ [][Next]_vars

\* The registry as constructed: no device.
InitHome ==
    /\ staged = new(NoInner, StagedType, StagedId)
    /\ devices = <<>>
    /\ last = Idle
    /\ response = NoResponse

\* Homelander::add_device(device).
AddDevice(d) ==
    /\ response = NoResponse
    /\ Len(devices) < MaxDevices
    /\ devices' = Append(devices, d)
    /\ UNCHANGED <<staged, last, response>>

\* The call remove_device(id) on record: its argument, the registry it was
\* made on and the devices of that registry that have this id.
Removal(id) ==
    [NoResponse EXCEPT !.op = "remove_device", !.kind = "ok",
                       !.device_id = id,
                       !.removed = SelectSeq(devices, LAMBDA f : f.id = id),
                       !.registry = devices]

\* The registry after Vec::swap_remove of every device with the id: the
\* last device takes the place of the removed one.
RECURSIVE SwapRemoved(_, _)
SwapRemoved(devs, id) ==
    IF \A k \in 1..Len(devs) : devs[k].id # id THEN devs
    ELSE LET first == CHOOSE k \in 1..Len(devs) :
                          /\ devs[k].id = id
                          /\ \A j \in 1..(k - 1) : devs[j].id # id
         IN SwapRemoved(
                IF first = Len(devs) THEN SubSeq(devs, 1, Len(devs) - 1)
                ELSE [SubSeq(devs, 1, Len(devs) - 1)
                          EXCEPT ![first] = devs[Len(devs)]],
                id)

\* remove_device taking the devices out with swap_remove: no device with
\* the id is left, and the devices left are not in the order they were in.
RemoveDevice_SwapRemove(id) ==
    /\ response = NoResponse
    /\ devices' = SwapRemoved(devices, id)
    /\ response' = Removal(id)
    /\ UNCHANGED <<staged, last>>

\* Homelander::remove_device(id): devices.retain(|f| f.id.ne(id)).
RemoveDevice(id) ==
    /\ response = NoResponse
    /\ devices' = SelectSeq(devices, LAMBDA f : f.id # id)
    /\ response' = Removal(id)
    /\ UNCHANGED <<staged, last>>

\* The registry and the answer after handle_request returned r for the
\* request with the given request id and inputs: the Response of Ok(..)
\* takes its request_id from the request.
Answered(request_id, request, r) ==
    /\ devices' = r.devs
    /\ response' = [op |-> "handle_request", request_id |-> request_id,
                    request |-> request, kind |-> r.kind,
                    response_id |-> IF r.kind = "ok" THEN request_id ELSE "",
                    payload |-> r.payload, log |-> r.log, err |-> r.err,
                    device_id |-> "", removed |-> <<>>,
                    registry |-> <<>>]

\* Homelander::handle_request(request).
HandleRequest(request_id, request) ==
    /\ response = NoResponse
    /\ Answered(request_id, request, handle_request(devices, request))
    /\ UNCHANGED <<staged, last>>

\* The caller takes the response or the error; a panic ends the run.
Deliver ==
    /\ response # NoResponse
    /\ response.kind # "panic"
    /\ response' = NoResponse
    /\ UNCHANGED <<staged, devices, last>>

NextHome ==
    \/ \E d \in HomeDevices : AddDevice(d)
    \/ \E id \in HomeIds : RemoveDevice(id)
    \/ \E request_id \in RequestIds, request \in Requests :
           HandleRequest(request_id, request)
    \/ Deliver

SpecHome == InitHome /\ [][NextHome]_vars

\* The devices added to the registry for SYNC: on or off line, with OnOff
\* and ArmDisarm registered, every getter working or one of the attribute
\* getters is_command_only and get_available_arm_levels failing.
SyncDevices ==
    {lib_build(new(s, "Switch", id), <<"on_off", "arm_disarm">>) :
        s \in {x \in InnerStates :
                   /\ ~x.on /\ ~x.locked
                   /\ x.fault.op \in {"none", "is_command_only",
                                      "get_available_arm_levels"}
                   /\ x.fault.err.variant \in {"", "AlreadyInState", "Other"}},
        id \in HomeIds}

\* Homelander::handle_request with a SYNC request.
SyncRequest(request_id) == HandleRequest(request_id, <<SyncInput>>)

NextSync ==
    \/ \E d \in SyncDevices : AddDevice(d)
    \/ \E id \in HomeIds : RemoveDevice(id)
    \/ \E request_id \in RequestIds : SyncRequest(request_id)
    \/ Deliver

SpecSync == InitHome /\ [][NextSync]_vars

\* The most devices in the registry of SpecRegistry.
MaxRegistry == 3

\* The ids of the devices of SpecRegistry.
RegistryIds == {"00", "01", "02"}

\* The devices added to the registry of SpecRegistry, all online and off with
\* OnOff registered: a Switch for each id, and an Outlet for "01".
RegistryDevices ==
    {lib_build(new([NoInner EXCEPT !.online = TRUE], "Switch", id),
               <<"on_off">>) : id \in RegistryIds}
    \cup {lib_build(new([NoInner EXCEPT !.online = TRUE], "Outlet", "01"),
                    <<"on_off">>)}

\* The commands sent in SpecRegistry: OnOff{on: true}.
RegistryCommands == {Cmd("OnOff", FALSE, FALSE, FALSE, TRUE, FALSE, 0)}

\* The requests served in SpecRegistry: SYNC, and EXECUTE of one command
\* for one device id.
RegistryRequests ==
    {<<SyncInput>>}
    \cup {<<ExecuteInput(<<[devices |-> <<id>>, execution |-> <<c>>]>>)>> :
            id \in RegistryIds, c \in RegistryCommands}

\* Homelander::add_device(device) on the registry of SpecRegistry.
AddRegistryDevice(d) ==
    /\ response = NoResponse
    /\ Len(devices) < MaxRegistry
    /\ devices' = Append(devices, d)
    /\ UNCHANGED <<staged, last, response>>

NextRegistry ==
    \/ \E d \in RegistryDevices : AddRegistryDevice(d)
    \/ \E id \in RegistryIds : RemoveDevice(id)
    \/ \E request_id \in RequestIds, request \in RegistryRequests :
           HandleRequest(request_id, request)
    \/ Deliver

SpecRegistry == InitHome /\ [][NextRegistry]_vars

\* The commands sent in SpecOrder: OnOff{on: true}, one call, and
\* BrightnessRelative with both parameters, two calls.
OrderCommands ==
    {Cmd("OnOff", FALSE, FALSE, FALSE, TRUE, FALSE, 0),
     Cmd("BrightnessRelative", TRUE, TRUE, FALSE, FALSE, FALSE, 0)}

\* The devices added to the registry of SpecOrder, all online and off: for
\* each id a working device with OnOff and Brightness registered, for "01"
\* also the devices whose set_brightness_relative_percent or
\* set_brightness_relative_weight fails, for "00" also a working device
\* with OnOff alone.
OrderDevices ==
    {lib_build(new([NoInner EXCEPT !.online = TRUE], "Switch", id),
               <<"on_off", "brightness">>) : id \in HomeIds}
    \cup {lib_build(new(s, "Switch", "01"), <<"on_off", "brightness">>) :
            s \in {x \in InnerStates :
                       /\ x.online /\ ~x.on /\ ~x.locked
                       /\ x.fault.op
                              \in {"set_brightness_relative_percent",
                                   "set_brightness_relative_weight"}}}
    \cup {lib_build(new([NoInner EXCEPT !.online = TRUE], "Switch", "00"),
                    <<"on_off">>)}

\* The command groups of SpecOrder, and those of one device id and one
\* command.
OrderGroups ==
    {[devices |-> ids, execution |-> cs] :
        ids \in SeqsUpTo(HomeIds, MaxIds),
        cs \in SeqsUpTo(OrderCommands, MaxCmds)}

OrderSingleGroups ==
    {[devices |-> <<id>>, execution |-> <<c>>] :
        id \in HomeIds, c \in OrderCommands}

\* The requests served in SpecOrder: EXECUTE with one command group, and
\* with two groups of one pair each.
OrderRequests ==
    {<<ExecuteInput(<<g>>)>> : g \in OrderGroups}
    \cup {<<ExecuteInput(<<g, h>>)>> : g, h \in OrderSingleGroups}

NextOrder ==
    \/ \E d \in OrderDevices : AddDevice(d)
    \/ \E request_id \in RequestIds, request \in OrderRequests :
           HandleRequest(request_id, request)
    \/ Deliver

SpecOrder == InitHome /\ [][NextOrder]_vars

\* The capabilities registered on one Device of lib.rs (each has a set_*
\* that populates its slot), and the commands sent to it.
LibSlots == Implemented

LibCommands == CommandType

\* lib.rs Device::set_<slot>.
LibRegister(slot) ==
    /\ last = Idle
    /\ Len(staged.traits) < MaxTraits
    /\ staged' = lib_set_trait(staged, slot)
    /\ UNCHANGED <<devices, last, response>>

\* lib.rs Device::execute(command).
LibExecute(c) ==
    /\ last = Idle
    /\ LET r == lib_execute(staged, c) IN
       /\ staged' = r.d
       /\ last' = [op |-> "execute", cmd |-> c, calls |-> r.calls,
                   raised |-> r.err, panicked |-> r.kind = "panic",
                   output |-> r.output, query |-> NoQueryState,
                   sync |-> Idle.sync, run |-> 0]
    /\ UNCHANGED <<devices, response>>

NextLib ==
    \/ \E slot \in LibSlots : LibRegister(slot)
    \/ \E c \in LibCommands : LibExecute(c)
    \/ Return

SpecLib == Init /\ [][NextLib]_vars

-----------------------------------------------------------------------------
(* Properties of Device::execute and Device::query *)

\* The device the latest operation ran on is online.
Online == staged.inner.online

\* C1: an EXECUTE command whose targeted capability slot is empty ends in a
\* fatal fault: Device::execute panics and returns no CommandOutput, for
\* every variant of CommandType.
C1_EmptySlotIsFatal ==
    (last.op = "execute"
     /\ TargetSlot(last.cmd.tag) \notin Populated(staged))
    => last.panicked

\* C2: an EXECUTE command whose targeted capability is registered never
\* returns SUCCESS without having invoked an operation of that capability.
C2_NoSilentNoOp ==
    (last.op = "execute"
     /\ TargetSlot(last.cmd.tag) \in Populated(staged)
     /\ ~last.panicked
     /\ last.output.status = "SUCCESS")
    => last.calls # <<>>

\* The ids of the devices in the registry.
Registered == {devices[k].id : k \in 1..Len(devices)}

\* The pairs of the request answered whose device id is registered.
RegisteredPairs ==
    SelectSeq(Pairs(response.request[1].commands),
              LAMBDA pr : pr.id \in Registered)

\* C3: in an EXECUTE request no failing (device id, command) pair aborts
\* the batch: handle_request returns a response, every pair is dispatched,
\* and the response has one entry per pair whose device id is registered,
\* for that pair's device.
C3_FailureNeverAbortsBatch ==
    (/\ response.op = "handle_request"
     /\ response.kind # "panic"
     /\ Len(response.request) = 1
     /\ response.request[1].intent = "EXECUTE")
    => /\ response.kind = "ok"
       /\ Len(response.log) >= Len(RegisteredPairs)
       /\ Len(response.payload.commands) = Len(RegisteredPairs)
       /\ \A k \in 1..Len(RegisteredPairs) :
              response.payload.commands[k].ids = <<RegisteredPairs[k].id>>

\* C4: when the operation invoked by an EXECUTE command fails with
\* CombinedDeviceError::Other, the result is OFFLINE with no state fragment,
\* no errorCode, and the error's message as debugString.
C4_ServerErrorIsOffline ==
    (last.op = "execute"
     /\ last.raised.ty = "CombinedDeviceError"
     /\ last.raised.variant = "Other")
    => /\ last.output.status = "OFFLINE"
       /\ ~last.output.state.some
       /\ ~ErrorCode(last.output).some
       /\ last.output.debug_string = Some(to_string(last.raised))

\* A command failed with CombinedDeviceError::Other and was answered OFFLINE.
C4_Witness ==
    /\ last.op = "execute"
    /\ last.raised = CombinedOther(InfraMsg)
    /\ last.calls # <<>>
    /\ last.output.status = "OFFLINE"
    /\ last.output.debug_string = Some(InfraMsg)

\* C5: no infrastructure error reaches the caller through errorCode: when
\* the operation fails with an infrastructure error, bare or carried in the
\* Other variant of a capability-specific error enum, the result has no
\* errorCode and the status OFFLINE.
C5_InfrastructureNeverInErrorCode ==
    (last.op = "execute" /\ IsInfrastructure(last.raised))
    => /\ ~ErrorCode(last.output).some
       /\ last.output.status = "OFFLINE"

\* C6: when the operation fails with a domain error, the result is ERROR
\* with the error's protocol code as errorCode, no state fragment and no
\* debugString.
C6_DomainErrorIsErrorCode ==
    (last.op = "execute"
     /\ last.raised # NoError
     /\ ~IsInfrastructure(last.raised))
    => /\ last.output.status = "ERROR"
       /\ ErrorCode(last.output) = Some(ProtocolCode(last.raised))
       /\ ~last.output.state.some
       /\ ~last.output.debug_string.some

\* C7: the QUERY of an offline device is OFFLINE, online = false, on = true
\* with no capability state, whatever its getters return.
C7_OfflineQueryIsOffline ==
    (last.op = "query" /\ ~Online)
    => /\ last.query.status = "OFFLINE"
       /\ ~last.query.online
       /\ last.query.on
       /\ ~last.query.traits.some

\* C8: the QUERY of an online device one of whose state getters raises an
\* error is ERROR with the error's message in error_code and no capability
\* state at all.
C8_GetterErrorIsError ==
    (last.op = "query" /\ Online /\ last.raised # NoError)
    => /\ last.query.status = "ERROR"
       /\ last.query.error_code = Some(to_string(last.raised))
       /\ ~last.query.traits.some

\* An online device was queried, a getter succeeded and a later one failed.
C8_Witness ==
    /\ last.op = "query"
    /\ Online
    /\ last.raised = CombinedOther(InfraMsg)
    /\ Len(last.calls) > 2
    /\ last.query.status = "ERROR"

\* C9: the QUERY of an offline device invokes no capability state getter.
C9_OfflineQueryCallsNoGetter ==
    (last.op = "query" /\ ~Online)
    => \A i \in 1..Len(last.calls) : ~IsGetter(last.calls[i])

\* C10: on a working online device that registered only OnOff, EXECUTE
\* OnOff{on: v} returns SUCCESS and leaves the device in state v, and QUERY
\* returns SUCCESS, online = true and a single `on` value, the device's
\* on/off state.
C10_OnOffScenario ==
    (/\ Populated(staged) = {"on_off"}
     /\ Online
     /\ staged.inner.fault = NoFault)
    => /\ (last.op = "execute" /\ last.cmd.tag = "OnOff")
            => /\ last.output.status = "SUCCESS"
               /\ staged.inner.on = last.cmd.b1
       /\ last.op = "query"
            => /\ last.query.status = "SUCCESS"
               /\ last.query.online
               /\ SerializedOn(last.query) = <<BoolStr(staged.inner.on)>>

\* C11: EXECUTE LockUnlock{lock: true} on a device whose set_locked raises
\* the already-locked domain error returns status ERROR with errorCode
\* exactly "alreadyLocked".
C11_AlreadyLockedCode ==
    (/\ last.op = "execute"
     /\ last.cmd.tag = "LockUnlock"
     /\ last.cmd.b1
     /\ last.raised = DeviceErr("LockUnlockError", "AlreadyLocked"))
    => /\ last.output.status = "ERROR"
       /\ ErrorCode(last.output) = Some("alreadyLocked")

\* C12: every entry of an EXECUTE response's commands list carries exactly
\* one device id, and the list has one entry per (device id, command) pair of
\* the request whose id matches a registered device, in the order of the
\* pairs; two groups of one command each for two distinct registered ids give
\* exactly two entries, one per id.
C12_OneEntryPerPair ==
    (/\ response.op = "handle_request"
     /\ response.kind = "ok"
     /\ response.payload.intent = "EXECUTE")
    => /\ Len(response.payload.commands) = Len(RegisteredPairs)
       /\ \A k \in 1..Len(response.payload.commands) :
              /\ Len(response.payload.commands[k].ids) = 1
              /\ k <= Len(RegisteredPairs)
                 => response.payload.commands[k].ids[1]
                        = RegisteredPairs[k].id

\* An answered request of two groups of one command each, for the two
\* registered ids "00" and "01": two entries, one per id.
C12_Witness ==
    /\ response.op = "handle_request"
    /\ response.kind = "ok"
    /\ Len(response.request) = 1
    /\ response.request[1].intent = "EXECUTE"
    /\ Len(response.request[1].commands) = 2
    /\ response.request[1].commands[1].devices = <<"00">>
    /\ response.request[1].commands[2].devices = <<"01">>
    /\ Registered = {"00", "01"}
    /\ Len(response.payload.commands) = 2
    /\ response.payload.commands[1].ids = <<"00">>
    /\ response.payload.commands[2].ids = <<"01">>

\* The request with every device id outside ids taken out of its command
\* groups.
KeptRequest(request, ids) ==
    [k \in 1..Len(request) |->
        [intent |-> request[k].intent,
         commands |->
             [j \in 1..Len(request[k].commands) |->
                 [devices |-> SelectSeq(request[k].commands[j].devices,
                                        LAMBDA id : id \in ids),
                  execution |-> request[k].commands[j].execution]]]]

\* The capability calls of a call log: every call but those of the
\* identity getters SYNC makes.
CapabilityCalls(log) ==
    SelectSeq(log, LAMBDA e :
                       \A k \in 1..Len(IdentityGetters) :
                           e[2] # IdentityGetters[k])

\* The registry devs and the answer resp are those of the outcome r of
\* handle_request: the same devices, the same Ok(response), Err(e) or
\* panic, after the same capability calls.
SameOutcome(devs, resp, r) ==
    /\ devs = r.devs
    /\ resp.kind = r.kind
    /\ resp.payload = r.payload
    /\ CapabilityCalls(resp.log) = CapabilityCalls(r.log)
    /\ resp.kind = "err" => resp.err = r.err

\* C13: an EXECUTE command addressed to a device id that no registered
\* device has is silently dropped: the registry, the result entries, the
\* capability calls and the error of the request are those of the same
\* request without the unregistered ids, and a request that names
\* unregistered ids only is answered with no entry, no capability call and
\* no error.
C13_UnregisteredIdDropped ==
    [][(response.op = "none" /\ response'.op = "handle_request")
        => /\ SameOutcome(devices', response',
                          handle_request(devices,
                                         KeptRequest(response'.request,
                                                     Registered)))
           /\ (/\ Len(response'.request) = 1
               /\ response'.request[1].intent = "EXECUTE"
               /\ RegisteredPairs' = <<>>)
              => /\ response'.kind = "ok"
                 /\ response'.payload.commands = <<>>
                 /\ response'.log = <<>>
                 /\ devices' = devices]_vars

\* An answered request with a pair for the unregistered id "01" and a pair
\* for the registered id "00", whose command ran and has its entry.
C13_Witness ==
    /\ response.op = "handle_request"
    /\ response.kind = "ok"
    /\ Len(response.request) = 1
    /\ response.request[1].intent = "EXECUTE"
    /\ Registered = {"00"}
    /\ \E k \in 1..Len(Pairs(response.request[1].commands)) :
           Pairs(response.request[1].commands)[k].id = "01"
    /\ Len(response.payload.commands) >= 1
    /\ response.log # <<>>

\* The capability calls of one (device id, command) pair on the registry
\* devs from index i on: the calls Device::execute makes on each device
\* with the id, in registry order, up to a device on which it panics.  The
\* calls on a device end with its first failing operation; the devices
\* after it are called all the same.
RECURSIVE CallsOfPair(_, _, _)
CallsOfPair(pr, devs, i) ==
    IF i > Len(devs) THEN <<>>
    ELSE IF devs[i].id # pr.id THEN CallsOfPair(pr, devs, i + 1)
    ELSE [k \in 1..Len(lib_execute(devs[i], pr.c).calls) |->
              <<i, lib_execute(devs[i], pr.c).calls[k]>>]
         \o (IF lib_execute(devs[i], pr.c).kind = "panic" THEN <<>>
             ELSE CallsOfPair(pr, devs, i + 1))

\* The pair ends the request: Device::execute panics on a device with the
\* id, or Homelander::execute returns Err for the pair.
EndsRequest(pr, devs) ==
    Homelander_execute(devs, pr.id, pr.c).kind \in {"panic", "err"}

\* The capability calls of a list of pairs, pair after pair up to one that
\* ends the request.  Which operations a device is called with, and which
\* of them fails, depends on its slots and its fault condition, which no
\* operation changes: the calls are those of the registry as it is when
\* the request arrives.
RECURSIVE CallsInOrder(_, _)
CallsInOrder(pairs, devs) ==
    IF pairs = <<>> THEN <<>>
    ELSE CallsOfPair(Head(pairs), devs, 1)
         \o (IF EndsRequest(Head(pairs), devs) THEN <<>>
             ELSE CallsInOrder(Tail(pairs), devs))

\* C14: within one EXECUTE input the capability operations are invoked, and
\* the result entries emitted, in the order of the pairs: command groups in
\* request order, inside a group device ids in list order, per device id the
\* commands in list order.  The calls of an earlier command all come before
\* the first call of a later one, on the same device as on any other; a
\* request that is cut short made the calls up to the end of the pair that
\* cut it.
C14_EvaluationOrder ==
    [][(/\ response.op = "none"
        /\ response'.op = "handle_request"
        /\ Len(response'.request) = 1
        /\ response'.request[1].intent = "EXECUTE")
        => /\ response'.log
                 = CallsInOrder(Pairs(response'.request[1].commands),
                                devices)
           /\ response'.kind = "ok"
              => /\ Len(response'.payload.commands) = Len(RegisteredPairs')
                 /\ \A k \in 1..Len(response'.payload.commands) :
                        k <= Len(RegisteredPairs')
                        => response'.payload.commands[k].ids
                               = <<RegisteredPairs'[k].id>>]_vars

\* An answered request with two different commands for the one device "01",
\* BrightnessRelative with both parameters and then OnOff: both calls of the
\* first command were made before set_on, and the entries are in that order.
C14_Witness ==
    /\ response.op = "handle_request"
    /\ response.kind = "ok"
    /\ Len(response.request) = 1
    /\ response.request[1].intent = "EXECUTE"
    /\ Len(devices) = 1
    /\ devices[1].id = "01"
    /\ response.log = <<<<1, "set_brightness_relative_percent">>,
                        <<1, "set_brightness_relative_weight">>,
                        <<1, "set_on">>>>
    /\ Len(response.payload.commands) = 2
    /\ response.payload.commands[1].status = "SUCCESS"
    /\ response.payload.commands[2].status = "SUCCESS"

\* The tags of the ordered active-capability list of a device.
ActiveTags(d) == {d.traits[k] : k \in 1..Len(d.traits)}

\* C15: after Device::new and any sequence of register calls, a capability
\* tag is in the device's ordered active-capability list if and only if the
\* corresponding slot of the slot table is populated.
C15_TagIffSlot ==
    /\ Populated(staged) \subseteq DOMAIN RegisterTag
    /\ \A slot \in DOMAIN RegisterTag :
           RegisterTag[slot] \in ActiveTags(staged)
               <=> slot \in Populated(staged)

\* A device after two register calls for different capabilities.
C15_Witness ==
    /\ Len(staged.traits) = 2
    /\ staged.traits[1] # staged.traits[2]
    /\ Cardinality(Populated(staged)) = 2

\* C16: request handling never changes a device's registration: over every
\* SYNC, QUERY and EXECUTE, successful or failing, the device's id, device
\* type, capability slot table and ordered active-capability list stay the
\* same; only the state of the underlying device instance may change, and
\* only through EXECUTE.
C16_RegistrationUnchanged ==
    [][(last.op = "none" /\ last'.op \in {"execute", "query", "sync"})
        => /\ staged'.id = staged.id
           /\ staged'.device_type = staged.device_type
           /\ staged'.device_traits = staged.device_traits
           /\ staged'.traits = staged.traits
           /\ last'.op \in {"query", "sync"}
              => staged'.inner = staged.inner]_vars

\* A device with two capabilities registered after an EXECUTE of
\* OnOff{on: true} that switched the underlying device on.
C16_Witness ==
    /\ last.op = "execute"
    /\ last.cmd.tag = "OnOff"
    /\ last.output.status = "SUCCESS"
    /\ staged.inner.on
    /\ Len(staged.traits) = 2
    /\ staged.id = StagedId

\* An attribute getter of a populated slot of d is failing.
GetterFails(d) ==
    \E i \in 1..Len(SyncGetters) :
        /\ SyncGetters[i][1] \in Populated(d)
        /\ SlotState(d, SyncGetters[i][1]).fault.op = SyncGetters[i][2]

\* C17: SYNC is all-or-nothing at the orchestrator: when an attribute
\* getter of any one registered device raises an error, the SYNC response
\* carries one top-level errorCode with a debugString and no device entry;
\* when no device raises, it lists every registered device in registry order
\* and has no errorCode.
C17_SyncAllOrNothing ==
    (/\ response.op = "handle_request"
     /\ response.request = <<SyncInput>>)
    => /\ response.kind = "ok"
       /\ IF \E k \in 1..Len(devices) : GetterFails(devices[k])
          THEN /\ response.payload.error_code.some
               /\ response.payload.debug_string.some
               /\ response.payload.devices = <<>>
          ELSE /\ response.payload.error_code = NoneStr
               /\ response.payload.debug_string = NoneStr
               /\ Len(response.payload.devices) = Len(devices)
               /\ \A k \in 1..Len(devices) :
                      /\ response.payload.devices[k].id = devices[k].id
                      /\ response.payload.devices[k].traits
                             = devices[k].traits

RegistrySyncRepeatable ==
    [][(/\ response.op = "none"
        /\ response'.op = "handle_request"
        /\ response'.request = <<SyncInput>>)
        => /\ devices' = devices
           /\ handle_request(devices', <<SyncInput>>).kind = response'.kind
           /\ handle_request(devices', <<SyncInput>>).payload
                  = response'.payload]_vars

\* C19: for a request with two or more inputs only the first input is acted
\* upon: the response payload is the one produced for the first input, and
\* no capability operation is invoked and no device state changed on behalf
\* of an input after the first, so the registry, the capability calls and the
\* outcome are those of the request made of the first input alone.
C19_OnlyFirstInputActedUpon ==
    [][(/\ response.op = "none"
        /\ response'.op = "handle_request"
        /\ Len(response'.request) >= 2)
        => SameOutcome(devices', response',
                       handle_request(devices,
                                      <<response'.request[1]>>))]_vars

\* C20: a successful EXECUTE of a command that yields no read-back state,
\* OnOff{on: true} for the one registered device with the id, registered
\* with OnOff, is answered with the request's requestId and exactly one
\* command result with ids = [the device id], status SUCCESS, and states,
\* errorCode and debugString all absent.
C20_OnOffResponse ==
    \A id \in HomeIds :
        (/\ response.op = "handle_request"
         /\ response.request
                = <<ExecuteInput(<<[devices |-> <<id>>,
                                    execution |->
                                        <<Cmd("OnOff", FALSE, FALSE, FALSE,
                                              TRUE, FALSE, 0)>>]>>)>>
         /\ Len(SelectSeq(devices, LAMBDA d : d.id = id)) = 1)
        => /\ response.kind = "ok"
           /\ response.response_id = response.request_id
           /\ response.payload.intent = "EXECUTE"
           /\ Len(response.payload.commands) = 1
           /\ response.payload.commands[1].ids = <<id>>
           /\ response.payload.commands[1].status = "SUCCESS"
           /\ ~response.payload.commands[1].states.some
           /\ response.payload.commands[1].error_code = NoneStr
           /\ response.payload.commands[1].debug_string = NoneStr

\* C21 as stated: every EXECUTE command result has a status and exactly one
\* of states and errorCode: states and no errorCode when the status is
\* SUCCESS, errorCode and no states when it is ERROR, never both and never
\* neither.
C21_ExactlyOneOfStatesErrorCode ==
    (last.op = "execute" /\ ~last.panicked)
    => /\ last.output.status # ""
       /\ last.output.state.some # last.output.error.some
       /\ last.output.status = "SUCCESS"
          => last.output.state.some /\ ~last.output.error.some
       /\ last.output.status = "ERROR"
          => last.output.error.some /\ ~last.output.state.some

\* C21 amended: every EXECUTE command result has one of the statuses
\* SUCCESS, ERROR and OFFLINE and never both states and errorCode: states
\* alone when SUCCESS, errorCode alone when ERROR, and neither of them but a
\* debugString when OFFLINE.
C21_StatesErrorCodeByStatus ==
    (last.op = "execute" /\ ~last.panicked)
    => /\ last.output.status \in {"SUCCESS", "ERROR", "OFFLINE"}
       /\ ~(last.output.state.some /\ last.output.error.some)
       /\ last.output.status = "SUCCESS"
          => /\ last.output.state.some
             /\ ~last.output.error.some
             /\ ~last.output.debug_string.some
       /\ last.output.status = "ERROR"
          => /\ last.output.error.some
             /\ ~last.output.state.some
             /\ ~last.output.debug_string.some
       /\ last.output.status = "OFFLINE"
          => /\ ~last.output.state.some
             /\ ~last.output.error.some
             /\ last.output.debug_string.some

\* An EXECUTE answered OFFLINE: neither states nor errorCode, a debugString.
C21_Witness ==
    /\ last.op = "execute"
    /\ last.output.status = "OFFLINE"
    /\ ~last.output.state.some
    /\ ~last.output.error.some
    /\ last.output.debug_string.some

\* C22: all populated capability slots of one device and its identity
\* contract alias one underlying device instance: after any EXECUTE the
\* state read through every populated slot of a registered device is the
\* state read through its identity contract, with no per-slot copy.
C22_SlotsAliasOneInstance ==
    \A k \in 1..Len(devices) :
        \A slot \in Populated(devices[k]) :
            SlotState(devices[k], slot) = devices[k].inner

\* C23: handle_request answers a QUERY input with a QUERY payload that has
\* an entry for every requested device id that a registered device has and
\* none for a requested id that no registered device has, without raising
\* an error for an unknown id.
C23_QueryAnswered ==
    (/\ response.op = "handle_request"
     /\ Len(response.request) = 1
     /\ response.request[1].intent = "QUERY")
    => /\ response.kind = "ok"
       /\ response.payload.intent = "QUERY"
       /\ {response.payload.devices[k].id :
               k \in 1..Len(response.payload.devices)}
              = {id \in Registered :
                     \E k \in 1..Len(response.request[1].commands[1].devices) :
                         response.request[1].commands[1].devices[k] = id}

\* C24: exclusive access to the device is acquired immediately
\* before and released immediately after each individual call made by
\* execute, query and sync: at most one acquisition is outstanding at any
\* point, none is held between two calls, and no acquisition fails.
C24_OneBorrowPerCall ==
    last.op \in {"execute", "query", "sync"}
    => /\ ~BorrowOutcome(last.op, last.calls).failed
       /\ BorrowOutcome(last.op, last.calls).peak <= 1

\* C25: for a successful EXECUTE LockUnlock{lock} the result's state
\* fragment field lock is the value is_locked returns when called after
\* set_locked returned, the state of the lock after the mutation, whether
\* or not it equals the lock parameter of the request.
C25_LockReadBackAfterMutation ==
    (/\ last.op = "execute"
     /\ last.cmd.tag = "LockUnlock"
     /\ last.output.status = "SUCCESS")
    => /\ last.calls = <<"set_locked", "is_locked">>
       /\ last.output.state.some
       /\ last.output.state.v.lock
              = Some(SlotState(staged, "lock_unlock").locked)

\* The number of times an operation was called.
Count(calls, op) == Cardinality({k \in 1..Len(calls) : calls[k] = op})

\* C26: EXECUTE BrightnessRelative calls set_brightness_relative_percent
\* once iff brightnessRelativePercent is present, then
\* set_brightness_relative_weight once iff brightnessRelativeWeight is
\* present and the first call did not fail; with both present and working
\* both are called in that order, and when the first fails the second is not
\* called and the command's result is that failure.  Each call is made
\* under an acquisition of its own, released before the next.
C26_BrightnessRelativeCalls ==
    (/\ last.op = "execute"
     /\ last.cmd.tag = "BrightnessRelative"
     /\ ~last.panicked)
    => LET percent == "set_brightness_relative_percent"
           weight == "set_brightness_relative_weight"
           first_fails == last.cmd.o1 /\ staged.inner.fault.op = percent
       IN /\ Count(last.calls, percent) = (IF last.cmd.o1 THEN 1 ELSE 0)
          /\ Count(last.calls, weight)
                 = (IF last.cmd.o2 /\ ~first_fails THEN 1 ELSE 0)
          /\ Len(last.calls) = Count(last.calls, percent)
                                   + Count(last.calls, weight)
          /\ Len(last.calls) = 2 => last.calls = <<percent, weight>>
          /\ first_fails => /\ last.raised = staged.inner.fault.err
                            /\ last.output.status # "SUCCESS"
          /\ ~BorrowOutcome(last.op, last.calls).failed
          /\ BorrowOutcome(last.op, last.calls).peak <= 1

\* BrightnessRelative with both parameters present on a device whose
\* set_brightness_relative_percent fails: one call, the result its failure.
C26_Witness ==
    /\ last.op = "execute"
    /\ last.cmd.tag = "BrightnessRelative"
    /\ last.cmd.o1 /\ last.cmd.o2
    /\ last.calls = <<"set_brightness_relative_percent">>
    /\ last.raised = staged.inner.fault.err
    /\ last.raised # NoError
    /\ last.output.status # "SUCCESS"

\* C27: EXECUTE ArmDisarm on a device with the ArmDisarm capability calls
\* exactly one of cancel_arm, arm_with_level and arm for every combination
\* of parameters: cancel_arm when cancel is true, otherwise arm_with_level
\* when armLevel is present, otherwise arm; a command with cancel = false
\* still arms or disarms.
C27_ArmDisarmExactlyOneCall ==
    (/\ last.op = "execute"
     /\ last.cmd.tag = "ArmDisarm"
     /\ "arm_disarm" \in Populated(staged))
    => last.calls = <<IF last.cmd.o1 /\ last.cmd.b2 THEN "cancel_arm"
                      ELSE IF last.cmd.o2 THEN "arm_with_level"
                      ELSE "arm">>

\* C28: when several registered devices have the same id, an EXECUTE command
\* addressed to that id invokes the capability operation only on the device
\* it reports, the first registered with that id: every capability call of
\* the request is made on a device that no earlier device shares its id
\* with, so no device is mutated without its outcome being reported.
C28_OnlyReportedDeviceCalled ==
    (/\ response.op = "handle_request"
     /\ response.kind = "ok"
     /\ response.payload.intent = "EXECUTE")
    => \A k \in 1..Len(CapabilityCalls(response.log)) :
           \A j \in 1..(CapabilityCalls(response.log)[k][1] - 1) :
               devices[j].id
                   # devices[CapabilityCalls(response.log)[k][1]].id

\* A list without duplicate entries.
NoDuplicates(list) ==
    \A i \in 1..Len(list) : \A j \in 1..Len(list) :
        i # j => list[i] # list[j]

\* C29: after any sequence of register calls on one device, the same
\* register operation called more than once included, the ordered
\* active-capability list holds each capability tag at most once, and so
\* does the traits list a SYNC emits.
C29_NoDuplicateTags ==
    /\ NoDuplicates(staged.traits)
    /\ (last.op = "sync" /\ last.sync.ok)
           => NoDuplicates(last.sync.device.traits)

\* The number of devices with the given id among the first n of a registry.
CountId(devs, id, n) == Cardinality({i \in 1..n : devs[i].id = id})

\* C30: remove_device(id) removes every registered device whose id equals
\* id and nothing else: the other devices stay registered, in their
\* relative order and with their state unchanged; afterwards an EXECUTE
\* addressed to id yields no result entry and SYNC does not list id; with an
\* unregistered id the registry is left unchanged.
C30_RemoveDevice ==
    [][\A id \in RegistryIds :
         RemoveDevice(id)
         => /\ \A k \in 1..Len(devices') : devices'[k].id # id
            /\ Len(devices') = Len(devices) - CountId(devices, id, Len(devices))
            /\ \A j \in 1..Len(devices) :
                   devices[j].id # id
                   => devices'[j - CountId(devices, id, j)] = devices[j]
            /\ \A c \in RegistryCommands :
                   /\ Homelander_execute(devices', id, c).kind = "none"
                   /\ handle_request(
                          devices',
                          <<ExecuteInput(<<[devices |-> <<id>>,
                                            execution |-> <<c>>]>>)>>
                      ).payload.commands = <<>>
            /\ \A k \in 1..Len(devices') :
                   Homelander_sync(devices')[k].id # id
            /\ id \notin Registered => devices' = devices]_vars

\* remove_device(id) called on a registry of three devices with the device
\* of the id in front: the two other devices, of two different ids and one
\* of them switched on by an earlier EXECUTE, are left in their order and
\* as they were.
C30_Witness ==
    /\ response.op = "remove_device"
    /\ Len(response.registry) = 3
    /\ response.registry[1].id = response.device_id
    /\ Len(response.removed) = 1
    /\ devices = <<response.registry[2], response.registry[3]>>
    /\ devices[1].id # devices[2].id
    /\ SlotState(devices[1], "on_off").on
    /\ ~SlotState(devices[2], "on_off").on

====
